---- MODULE Spec2Model ----
(***************************************************************************)
(* The canvas preview pipeline of the ad generator (AIAdGenerator) and of  *)
(* the real-time customization screen (RealTimeCustomization), both in     *)
(* frontend/src/components/AIAdGenerator.tsx, with the part of the ad      *)
(* store (useAdStore) the customization screen writes through to.          *)
(*                                                                         *)
(* Texts are strings.  A canvas is a record of its size, its 2D context    *)
(* (drawing state, current path, save stack) and its surface: the list of  *)
(* draw operations that are still visible, each with the drawing state it  *)
(* was executed under.  A fill that covers the whole bitmap with an opaque *)
(* colour and no clip leaves only itself on the surface.                   *)
(***************************************************************************)
EXTENDS Integers, Sequences, FiniteSets, TLC

VARIABLES
    activeTab,      \* the tab of the studio page whose component is mounted
    tabSwitches,    \* how often the user has changed the tab
    adStore,        \* useAdStore: templates, selectedTemplate, generatedAds, currentAd
    rtc,            \* RealTimeCustomization: its React state
    rtcCanvas,      \* RealTimeCustomization: canvasRef.current
    gen,            \* AIAdGenerator: its React state
    genCanvas,      \* AIAdGenerator: canvasRef.current
    timer,          \* RealTimeCustomization: the intervals set and not cleared,
                    \* each with the render whose performAutoOptimization
                    \* it calls, and intervalRef
    optimizations,  \* how many runs of performAutoOptimization wait for
                    \* optimizePrompt
    downloads,      \* the downloads link.click() has started, oldest first
    toast,          \* the toast shown last
    genRuns,        \* AIAdGenerator: the runs of handleGenerateContent that wait
                    \* for a promise, oldest first
    aiStore,        \* useAIStore: its state and the generateContent calls that
                    \* wait for the API
    wrapCall,       \* one call of wrapText / drawText: arguments and lines
    variationCall,  \* one call of getContentVariation: arguments and result
    layoutCall      \* two calls of calculateLayout: arguments and results

vars == <<activeTab, tabSwitches, adStore, rtc, rtcCanvas, gen, genCanvas,
          timer, optimizations, downloads, toast, genRuns, aiStore,
          wrapCall, variationCall, layoutCall>>

componentVars == <<activeTab, tabSwitches, adStore, rtc, rtcCanvas, gen, genCanvas,
                   timer, optimizations, downloads, toast, genRuns, aiStore>>
callVars == <<wrapCall, variationCall, layoutCall>>

-----------------------------------------------------------------------------
(* Bounds of the model.                                                    *)

\* longest text handed to the word wrap, in characters
MaxTextLen == 6
\* widest maxWidth handed to the word wrap, in units of 4 pixels
MaxWidthUnits == 10
\* variation indices tried are -MaxIndex .. MaxIndex (and the halves between)
MaxIndex == 6
\* most ads the store holds; a generation run adds up to three
MaxAds == 3
\* most changes of the tab in one session
MaxTabSwitches == 1
\* most runs of performAutoOptimization waiting at a time
MaxInFlight == 2
\* most downloads started in one session
MaxDownloads == 2
\* most generations the history of useAIStore holds
MaxGenerations == 6
\* most experiments created, and most entries of activeExperiments
MaxExperiments == 2
MaxActive == 3

-----------------------------------------------------------------------------
(* Strings.                                                                *)

\* the pieces of s from position start on, cut at each space
RECURSIVE SplitFrom(_, _)
SplitFrom(s, start) ==
    LET spaces == {i \in start..Len(s) : SubSeq(s, i, i) = " "}
    IN  IF spaces = {} THEN <<SubSeq(s, start, Len(s))>>
        ELSE LET first == CHOOSE i \in spaces : \A j \in spaces : i <= j
             IN  <<SubSeq(s, start, first - 1)>> \o SplitFrom(s, first + 1)

\* String.prototype.split(' '): the pieces between the spaces; "" gives [""].
Split(s) == SplitFrom(s, 1)

RECURSIVE JoinFrom(_, _)
JoinFrom(parts, i) ==
    IF i > Len(parts) THEN ""
    ELSE IF i = Len(parts) THEN parts[i]
         ELSE parts[i] \o " " \o JoinFrom(parts, i + 1)

\* Array.prototype.join(' ')
Join(parts) == JoinFrom(parts, 1)

\* a text with at least one character that leaves ink on the bitmap
HasGlyph(s) == \E i \in 1..Len(s) : SubSeq(s, i, i) # " "

RECURSIVE StringsUpTo(_, _)
StringsUpTo(alphabet, n) ==
    IF n = 0 THEN {""}
    ELSE LET shorter == StringsUpTo(alphabet, n - 1)
         IN  shorter \cup {s \o ch : s \in shorter, ch \in alphabet}

-----------------------------------------------------------------------------
(* The 2D context (CanvasRenderingContext2D) as the components use it.     *)

Font(weight, size, family) == [weight |-> weight, size |-> size, family |-> family]

\* a fill style: a CSS colour, or the linear gradient between two stops
Solid(colour) == [kind |-> "solid", from |-> colour, to |-> colour]
Gradient(stop0, stop1) == [kind |-> "gradient", from |-> stop0, to |-> stop1]

Opaque(style) == style.kind = "solid" /\ Len(style.from) = 7

NoPath == [kind |-> "none", x |-> 0, y |-> 0, w |-> 0, h |-> 0, r |-> 0]

\* the drawing state a fresh or reset context has
DefaultState ==
    [fillStyle     |-> Solid("#000000"),
     font          |-> Font("normal", 10, "sans-serif"),
     textAlign     |-> "start",
     shadowColor   |-> "rgba(0, 0, 0, 0)",
     shadowBlur    |-> 0,
     shadowOffsetX |-> 0,
     shadowOffsetY |-> 0,
     clip          |-> <<>>]

DefaultCtx == [state |-> DefaultState, path |-> NoPath, stack |-> <<>>]

\* a canvas element of the given size, never drawn on
NewCanvas(width, height) ==
    [width |-> width, height |-> height, ctx |-> DefaultCtx, ops |-> <<>>]

\* the visible output: the bitmap's size and what is drawn on it
Surface(c) == [width |-> c.width, height |-> c.height, ops |-> c.ops]

\* a shadow is drawn when its colour is not transparent and it has an extent
HasShadow(state) ==
    /\ state.shadowColor # "rgba(0, 0, 0, 0)"
    /\ (state.shadowBlur # 0 \/ state.shadowOffsetX # 0 \/ state.shadowOffsetY # 0)

SetState(c, field, value) == [c EXCEPT !.ctx.state[field] = value]

SetFillStyle(c, style) == SetState(c, "fillStyle", style)
SetFont(c, font) == SetState(c, "font", font)
SetTextAlign(c, align) == SetState(c, "textAlign", align)

\* canvas.width = w; canvas.height = h: the bitmap is cleared and the context
\* is reset to its default state, even when the size does not change
\* (variant: an assignment that clears the bitmap and keeps the context)
SetCanvasSizeKeepingContext(c, width, height) ==
    [c EXCEPT !.width = width, !.height = height, !.ops = <<>>]
\* (variant: an assignment that resets the canvas only when the size changes)
SetCanvasSizeWhenChanged(c, width, height) ==
    IF c.width = width /\ c.height = height THEN c ELSE NewCanvas(width, height)
SetCanvasSize(c, width, height) == NewCanvas(width, height)

\* ctx.save() / ctx.restore(): the drawing state, not the path
Save(c) == [c EXCEPT !.ctx.stack = Append(@, c.ctx.state)]
Restore(c) ==
    IF c.ctx.stack = <<>> THEN c
    ELSE [c EXCEPT !.ctx.state = c.ctx.stack[Len(c.ctx.stack)],
                   !.ctx.stack = SubSeq(@, 1, Len(@) - 1)]

\* ctx.clip(): the clip region is intersected with the current path
Clip(c) == [c EXCEPT !.ctx.state.clip = Append(@, c.ctx.path)]

\* the part of the drawing state that decides what an operation of the kind
\* puts on the bitmap: font and textAlign play no part in a rectangle
Effective(state, kind) ==
    IF kind = "rect"
    THEN [state EXCEPT !.font = DefaultState.font, !.textAlign = DefaultState.textAlign]
    ELSE state

DrawOp(c, kind, el, x, y, dy3, w, h, text) ==
    [kind |-> kind, el |-> el, x |-> x, y |-> y, dy3 |-> dy3,
     w |-> w, h |-> h, text |-> text, state |-> Effective(c.ctx.state, kind)]

Covers(c, x, y, w, h) ==
    /\ x <= 0 /\ y <= 0 /\ x + w >= c.width /\ y + h >= c.height
    /\ c.ctx.state.clip = <<>>
    /\ Opaque(c.ctx.state.fillStyle)

\* ctx.fillRect(x, y, w, h), drawn for element el of the ad
FillRect(c, el, x, y, w, h) ==
    LET op == DrawOp(c, "rect", el, x, y, 0, w, h, "")
    IN  [c EXCEPT !.ops = IF Covers(c, x, y, w, h) THEN <<op>> ELSE Append(@, op)]

\* ctx.fillText(text, x, y + dy3/3), drawn for element el of the ad; a text
\* without glyphs leaves the bitmap as it is
FillText(c, el, text, x, y, dy3) ==
    IF HasGlyph(text)
    THEN [c EXCEPT !.ops = Append(@, DrawOp(c, "text", el, x, y, dy3, 0, 0, text))]
    ELSE c

\* the width of a glyph of the font; every glyph of a font has the same width
CharWidth(font) == (font.size \div 2) + (IF font.weight = "bold" THEN 1 ELSE 0)

\* ctx.measureText(text).width
measureText(c, text) == Len(text) * CharWidth(c.ctx.state.font)

-----------------------------------------------------------------------------
(* JavaScript values that may be undefined, and numbers used as indices.   *)

Undefined == [defined |-> FALSE, value |-> ""]
Defined(v) == [defined |-> TRUE, value |-> v]

\* a || b
OrElse(a, b) == IF a.defined /\ a.value # "" THEN a ELSE b

\* a number: the integer n, the non-integer n + 1/2, or NaN
Int2Num(n) == [kind |-> "int", n |-> n]
HalfAfter(n) == [kind |-> "half", n |-> n]
NaN == [kind |-> "nan", n |-> 0]

\* arr[index]: undefined unless index is an integer within the array
ArrayGet(arr, index) ==
    IF index.kind = "int" /\ index.n >= 0 /\ index.n < Len(arr)
    THEN Defined(arr[index.n + 1])
    ELSE Undefined

-----------------------------------------------------------------------------
(* RealTimeCustomization: the render.                                      *)

Null == [null |-> TRUE]

\* the customizations state of a freshly mounted RealTimeCustomization
InitialCustomizations ==
    [backgroundColor      |-> "#ffffff",
     textColor            |-> "#000000",
     accentColor          |-> "#007bff",
     fontSize             |-> 16,
     fontFamily           |-> "Inter",
     borderRadius         |-> 8,
     shadow               |-> 2,
     layout               |-> "standard",
     imagePosition        |-> "left",
     textAlignment        |-> "left",
     padding              |-> 20,
     animationType        |-> "none",
     animationDuration    |-> 1000,
     autoPlay             |-> FALSE,
     headlineVariation    |-> 0,
     descriptionVariation |-> 0,
     ctaVariation         |-> 0,
     realTimeOptimization |-> TRUE,
     audienceAdaptation   |-> TRUE,
     performanceTuning    |-> TRUE]

getCanvasDimensions(mode) ==
    CASE mode = "mobile" -> [width |-> 320, height |-> 400]
      [] mode = "tablet" -> [width |-> 768, height |-> 500]
      [] OTHER           -> [width |-> 600, height |-> 400]

TextRegion(x, y, maxWidth) == [x |-> x, y |-> y, maxWidth |-> maxWidth]
ButtonRegion(x, y, width, height) == [x |-> x, y |-> y, width |-> width, height |-> height]

\* the three surface widths are even, so width / 2 and height / 2 are whole
\* (variant: the text regions placed below a headline of the font's height)
calculateLayoutFontAware(customizations, width, height) ==
    LET padding == customizations.padding
        top     == padding + 24 + customizations.fontSize
    IN  CASE customizations.layout = "centered" ->
               [headline    |-> TextRegion(width \div 2, top, width - (padding * 2)),
                description |-> TextRegion(width \div 2, top + 60, width - (padding * 2)),
                cta         |-> ButtonRegion(width \div 2 - 60, height - padding - 50, 120, 40)]
          [] customizations.layout = "split" ->
               [headline    |-> TextRegion(padding, top, width \div 2 - padding),
                description |-> TextRegion(padding, top + 60, width \div 2 - padding),
                cta         |-> ButtonRegion(width \div 2 + padding, height \div 2 - 20, 120, 40)]
          [] OTHER ->
               [headline    |-> TextRegion(padding, top, width - (padding * 2)),
                description |-> TextRegion(padding, top + 60, width - (padding * 2)),
                cta         |-> ButtonRegion(padding, height - padding - 50, 120, 40)]
\* (variant: the CTA of the split layout left of the middle)
calculateLayoutSplitCtaLeft(customizations, width, height) ==
    LET padding == customizations.padding
        top     == padding + 40
    IN  CASE customizations.layout = "centered" ->
               [headline    |-> TextRegion(width \div 2, top, width - (padding * 2)),
                description |-> TextRegion(width \div 2, top + 60, width - (padding * 2)),
                cta         |-> ButtonRegion(width \div 2 - 60, height - padding - 50, 120, 40)]
          [] customizations.layout = "split" ->
               [headline    |-> TextRegion(padding, top, width \div 2 - padding),
                description |-> TextRegion(padding, top + 60, width \div 2 - padding),
                cta         |-> ButtonRegion(width \div 2 - padding, height \div 2 - 20, 120, 40)]
          [] OTHER ->
               [headline    |-> TextRegion(padding, top, width - (padding * 2)),
                description |-> TextRegion(padding, top + 60, width - (padding * 2)),
                cta         |-> ButtonRegion(padding, height - padding - 50, 120, 40)]
\* (variant: the CTA of the standard and centered layouts 10 pixels lower)
calculateLayoutCtaLower(customizations, width, height) ==
    LET padding == customizations.padding
    IN  CASE customizations.layout = "centered" ->
               [headline    |-> TextRegion(width \div 2, padding + 40, width - (padding * 2)),
                description |-> TextRegion(width \div 2, padding + 100, width - (padding * 2)),
                cta         |-> ButtonRegion(width \div 2 - 60, height - padding - 40, 120, 40)]
          [] customizations.layout = "split" ->
               [headline    |-> TextRegion(padding, padding + 40, width \div 2 - padding),
                description |-> TextRegion(padding, padding + 100, width \div 2 - padding),
                cta         |-> ButtonRegion(width \div 2 + padding, height \div 2 - 20, 120, 40)]
          [] OTHER ->
               [headline    |-> TextRegion(padding, padding + 40, width - (padding * 2)),
                description |-> TextRegion(padding, padding + 100, width - (padding * 2)),
                cta         |-> ButtonRegion(padding, height - padding - 40, 120, 40)]
calculateLayout(customizations, width, height) ==
    LET padding == customizations.padding
    IN  CASE customizations.layout = "centered" ->
               [headline    |-> TextRegion(width \div 2, padding + 40, width - (padding * 2)),
                description |-> TextRegion(width \div 2, padding + 100, width - (padding * 2)),
                cta         |-> ButtonRegion(width \div 2 - 60, height - padding - 50, 120, 40)]
          [] customizations.layout = "split" ->
               [headline    |-> TextRegion(padding, padding + 40, width \div 2 - padding),
                description |-> TextRegion(padding, padding + 100, width \div 2 - padding),
                cta         |-> ButtonRegion(width \div 2 + padding, height \div 2 - 20, 120, 40)]
          [] OTHER ->
               [headline    |-> TextRegion(padding, padding + 40, width - (padding * 2)),
                description |-> TextRegion(padding, padding + 100, width - (padding * 2)),
                cta         |-> ButtonRegion(padding, height - padding - 50, 120, 40)]

\* the variants of each field; ^ stands for the fire glyph U+1F525
variations(type, originalText) ==
    CASE type = "headline" ->
           <<originalText,
             originalText \o " - Limited Time!",
             "New: " \o originalText,
             originalText \o " ^">>
      [] type = "description" ->
           <<originalText,
             originalText \o " Act now!",
             "Exclusive: " \o originalText,
             originalText \o " Don't miss out!">>
      [] type = "cta" ->
           <<originalText, "Get Started", "Learn More", "Try Now", "Shop Today">>

\* variations[type][variationIndex] || originalText
\* (variants: without the fallback; with the index off by one)
variationAtNoFallback(type, originalText, variationIndex) ==
    ArrayGet(variations(type, originalText), variationIndex)
variationAtNext(type, originalText, variationIndex) ==
    OrElse(ArrayGet(variations(type, originalText),
                    [variationIndex EXCEPT !.n = @ + 1]),
           Defined(originalText))
variationAt(type, originalText, variationIndex) ==
    OrElse(ArrayGet(variations(type, originalText), variationIndex),
           Defined(originalText))

getContentVariation(customizations, type, originalText) ==
    variationAt(type, originalText, Int2Num(customizations[type \o "Variation"]))

\* (variant: a loop that measures the word alone, not the line with it)
RECURSIVE drawTextLoopWordOnly(_, _, _, _, _, _)
drawTextLoopWordOnly(c, words, maxWidth, i, currentLine, lines) ==
    IF i > Len(words) THEN Append(lines, currentLine)
    ELSE LET word  == words[i]
             width == measureText(c, word)
         IN  IF width < maxWidth
             THEN drawTextLoopWordOnly(c, words, maxWidth, i + 1,
                                       currentLine \o " " \o word, lines)
             ELSE drawTextLoopWordOnly(c, words, maxWidth, i + 1,
                                       word, Append(lines, currentLine))

\* the loop of drawText over words[i], i counted from 1 as Sequences does
RECURSIVE drawTextLoop(_, _, _, _, _, _)
drawTextLoop(c, words, maxWidth, i, currentLine, lines) ==
    IF i > Len(words) THEN Append(lines, currentLine)
    ELSE LET word  == words[i]
             width == measureText(c, currentLine \o " " \o word)
         IN  IF width < maxWidth
             THEN drawTextLoop(c, words, maxWidth, i + 1,
                               currentLine \o " " \o word, lines)
             ELSE drawTextLoop(c, words, maxWidth, i + 1,
                               word, Append(lines, currentLine))

\* the lines drawText breaks text into
drawTextLines(c, text, maxWidth) ==
    LET words == Split(text)
    IN  drawTextLoop(c, words, maxWidth, 2, words[1], <<>>)

RECURSIVE FillLines(_, _, _, _, _, _, _)
FillLines(c, el, lines, index, x, y, lineHeight) ==
    IF index >= Len(lines) THEN c
    ELSE FillLines(FillText(c, el, lines[index + 1], x, y + (index * lineHeight), 0),
                   el, lines, index + 1, x, y, lineHeight)

drawText(c, customizations, el, text, x, y, maxWidth) ==
    FillLines(c, el, drawTextLines(c, text, maxWidth), 0, x, y,
              customizations.fontSize + 5)

\* the label's baseline is y + height / 2 + fontSize / 3, kept exact as thirds
drawButton(c, customizations, text, x, y, width, height) ==
    LET c1 == FillRect(SetFillStyle(c, Solid(customizations.accentColor)),
                       "cta", x, y, width, height)
        c2 == SetFillStyle(c1, Solid("#ffffff"))
        c3 == SetFont(c2, Font("bold", customizations.fontSize, customizations.fontFamily))
        c4 == SetTextAlign(c3, "center")
    IN  FillText(c4, "cta", text, x + width \div 2, y + height \div 2,
                 customizations.fontSize)

\* the path of a rounded rectangle becomes the current path
roundRect(c, x, y, width, height, radius) ==
    [c EXCEPT !.ctx.path = [kind |-> "roundRect", x |-> x, y |-> y,
                            w |-> width, h |-> height, r |-> radius]]

\* "Clear canvas": the whole bitmap is filled with the background colour
\* (variant: the fill style is set and the fill left out)
ClearCanvasOmitted(c, colour) == SetFillStyle(c, Solid(colour))
ClearCanvas(c, colour) ==
    FillRect(SetFillStyle(c, Solid(colour)), "background", 0, 0, c.width, c.height)

\* "Apply shadow effect": the step of updatePreview after the CTA button
\* (variant: the blur as deep as the offsets)
applyShadowSingleBlur(c, customizations) ==
    IF customizations.shadow > 0
    THEN [c EXCEPT !.ctx.state.shadowColor   = "rgba(0, 0, 0, 0.1)",
                   !.ctx.state.shadowBlur    = customizations.shadow,
                   !.ctx.state.shadowOffsetX = customizations.shadow,
                   !.ctx.state.shadowOffsetY = customizations.shadow]
    ELSE c
applyShadow(c, customizations) ==
    IF customizations.shadow > 0
    THEN [c EXCEPT !.ctx.state.shadowColor   = "rgba(0, 0, 0, 0.1)",
                   !.ctx.state.shadowBlur    = customizations.shadow * 2,
                   !.ctx.state.shadowOffsetX = customizations.shadow,
                   !.ctx.state.shadowOffsetY = customizations.shadow]
    ELSE c

updatePreview(canvas, selectedAd, customizations, previewMode) ==
    IF canvas = Null \/ selectedAd = Null THEN canvas
    ELSE
    LET dimensions == getCanvasDimensions(previewMode)
        c1 == SetCanvasSize(canvas, dimensions.width, dimensions.height)
        width  == c1.width
        height == c1.height
        c2 == ClearCanvas(c1, customizations.backgroundColor)
        c3 == IF customizations.borderRadius > 0
              THEN Clip(roundRect(Save(c2), 0, 0, width, height,
                                  customizations.borderRadius))
              ELSE c2
        c4 == IF customizations.accentColor # customizations.backgroundColor
              THEN FillRect(SetFillStyle(c3, Gradient(customizations.backgroundColor,
                                                      customizations.accentColor \o "20")),
                            "gradient", 0, 0, width, height)
              ELSE c3
        layout == calculateLayout(customizations, width, height)
        c5 == SetTextAlign(
                  SetFont(SetFillStyle(c4, Solid(customizations.textColor)),
                          Font("bold", customizations.fontSize + 4, customizations.fontFamily)),
                  customizations.textAlignment)
        headline == getContentVariation(customizations, "headline",
                                        selectedAd.content.headline)
        c6 == drawText(c5, customizations, "headline", headline.value,
                       layout.headline.x, layout.headline.y, layout.headline.maxWidth)
        c7 == SetFont(c6, Font("normal", customizations.fontSize, customizations.fontFamily))
        description == getContentVariation(customizations, "description",
                                           selectedAd.content.description)
        c8 == drawText(c7, customizations, "description", description.value,
                       layout.description.x, layout.description.y,
                       layout.description.maxWidth)
        cta == getContentVariation(customizations, "cta", selectedAd.content.callToAction)
        c9 == drawButton(c8, customizations, cta.value, layout.cta.x, layout.cta.y,
                         layout.cta.width, layout.cta.height)
        c10 == applyShadow(c9, customizations)
    IN  IF customizations.borderRadius > 0 THEN Restore(c10) ELSE c10

-----------------------------------------------------------------------------
(* AIAdGenerator: the render.                                              *)

\* generationConfig.customizations of a freshly mounted AIAdGenerator
InitialGenCustomizations ==
    [backgroundColor |-> "#ffffff",
     textColor       |-> "#000000",
     accentColor     |-> "#007bff",
     fontSize        |-> 16,
     fontFamily      |-> "Inter",
     layout          |-> "standard"]

\* (variant: a word appended also when the joined line measures maxWidth)
RECURSIVE wrapTextLoopInclusive(_, _, _, _, _, _)
wrapTextLoopInclusive(c, words, maxWidth, i, currentLine, lines) ==
    IF i > Len(words) THEN Append(lines, currentLine)
    ELSE LET word  == words[i]
             width == measureText(c, currentLine \o " " \o word)
         IN  IF width <= maxWidth
             THEN wrapTextLoopInclusive(c, words, maxWidth, i + 1,
                                        currentLine \o " " \o word, lines)
             ELSE wrapTextLoopInclusive(c, words, maxWidth, i + 1,
                                        word, Append(lines, currentLine))

\* (variant: the line still open after the last word is not pushed)
RECURSIVE wrapTextLoopUnflushed(_, _, _, _, _, _)
wrapTextLoopUnflushed(c, words, maxWidth, i, currentLine, lines) ==
    IF i > Len(words) THEN lines
    ELSE LET word  == words[i]
             width == measureText(c, currentLine \o " " \o word)
         IN  IF width < maxWidth
             THEN wrapTextLoopUnflushed(c, words, maxWidth, i + 1,
                                        currentLine \o " " \o word, lines)
             ELSE wrapTextLoopUnflushed(c, words, maxWidth, i + 1,
                                        word, Append(lines, currentLine))

RECURSIVE wrapTextLoop(_, _, _, _, _, _)
wrapTextLoop(c, words, maxWidth, i, currentLine, lines) ==
    IF i > Len(words) THEN Append(lines, currentLine)
    ELSE LET word  == words[i]
             width == measureText(c, currentLine \o " " \o word)
         IN  IF width < maxWidth
             THEN wrapTextLoop(c, words, maxWidth, i + 1,
                               currentLine \o " " \o word, lines)
             ELSE wrapTextLoop(c, words, maxWidth, i + 1,
                               word, Append(lines, currentLine))

wrapText(c, text, maxWidth) ==
    LET words == Split(text)
    IN  wrapTextLoop(c, words, maxWidth, 2, words[1], <<>>)

updateCanvasPreview(canvas, selectedVariation, customizations) ==
    IF canvas = Null \/ selectedVariation = Null THEN canvas
    ELSE
    LET c1 == ClearCanvas(canvas, customizations.backgroundColor)
        c2 == SetFont(SetFillStyle(c1, Solid(customizations.textColor)),
                      Font("bold", customizations.fontSize + 4, customizations.fontFamily))
        c3 == FillText(c2, "headline", selectedVariation.content.headline, 20, 40, 0)
        c4 == SetFont(c3, Font("normal", customizations.fontSize, customizations.fontFamily))
        lines == wrapText(c4, selectedVariation.content.description, canvas.width - 40)
        c5 == FillLines(c4, "description", lines, 0, 20, 80, 25)
        c6 == FillRect(SetFillStyle(c5, Solid(customizations.accentColor)),
                       "cta", 20, canvas.height - 60, 120, 40)
        c7 == SetFont(SetFillStyle(c6, Solid("#ffffff")),
                      Font("normal", customizations.fontSize, customizations.fontFamily))
    IN  FillText(c7, "cta", selectedVariation.content.callToAction, 30, canvas.height - 35, 0)

-----------------------------------------------------------------------------
(* useAdStore.                                                             *)

\* what personalizeText makes of template '3', the one template without a
\* random or profile-dependent placeholder
AppDownloadContent ==
    [headline       |-> "Download Our App - Save Time Daily",
     description    |-> "Join 1M+ users who save 2 hours daily. Smart automation that makes daily tasks easier.",
     callToAction   |-> "Download Free",
     visualElements |-> [backgroundColor |-> "#ffffff",
                         textColor       |-> "#000000",
                         accentColor     |-> "#007bff"]]

Templates == {[id |-> "3", name |-> "App Download"]}

InitialAdStore ==
    [templates        |-> {},
     selectedTemplate |-> Null,
     generatedAds     |-> <<>>,
     currentAd        |-> Null,
     isGenerating     |-> FALSE]

\* { ...visualElements, [key]: value }
WithKey(visualElements, key, value) ==
    [k \in (DOMAIN visualElements) \cup {key} |->
        IF k = key THEN value ELSE visualElements[k]]

\* updateAd(adId, { content }): the ad's content is replaced (updatedAt, a
\* clock reading, is left out)
updateAd(store, adId, content) ==
    [store EXCEPT
        !.generatedAds = [i \in DOMAIN @ |->
                            IF @[i].id = adId THEN [@[i] EXCEPT !.content = content]
                            ELSE @[i]],
        !.currentAd = IF @ # Null /\ @.id = adId THEN [@ EXCEPT !.content = content]
                      ELSE @]

\* the ad generateAd makes from the template, with the next unused id
NewAd(store, templateId) ==
    [id |-> Len(store.generatedAds) + 1, templateId |-> templateId,
     content |-> AppDownloadContent]

\* the store after generateAd has resolved
generateAd(store, templateId) ==
    LET ad == NewAd(store, templateId)
    IN  [store EXCEPT !.generatedAds = Append(@, ad), !.currentAd = ad,
                      !.isGenerating = FALSE]

-----------------------------------------------------------------------------
(* useAIStore.                                                             *)

\* the state a fresh store has; calls holds the models of the generateContent
\* calls that wait for the API, and the counters count requests (the tokens
\* and costs, random numbers, are left out)
InitialAiStore ==
    [availableModels   |-> {},
     activeModels      |-> [type \in {} |-> ""],
     generationHistory |-> <<>>,
     isGenerating      |-> FALSE,
     calls             |-> <<>>,
     modelRequests     |-> [id \in {} |-> 0],
     requestsToday     |-> 0,
     experiments       |-> <<>>,
     activeExperiments |-> <<>>]

ModelIds == {"gpt-4-turbo", "gpt-4-vision", "dall-e-3", "claude-3-opus"}

loadModels(ai) ==
    [ai EXCEPT !.availableModels = ModelIds,
               !.modelRequests   = [id \in ModelIds |-> 0],
               !.activeModels    = [type \in {"text", "image", "multimodal"} |->
                                       CASE type = "text"  -> "gpt-4-turbo"
                                         [] type = "image" -> "dall-e-3"
                                         [] OTHER          -> "gpt-4-vision"]]

\* availableModels.find(m => m.id === activeModels[type]) finds a model
ModelFound(ai, type) ==
    type \in DOMAIN ai.activeModels /\ ai.activeModels[type] \in ai.availableModels

\* generateContent up to its await: the flag is set, and a call that finds
\* no model clears it again and throws
\* (variant: a call that throws leaves the flag as it has set it)
generateContentStartNoReset(ai, type) ==
    IF ModelFound(ai, type)
    THEN [ai EXCEPT !.isGenerating = TRUE, !.calls = Append(@, ai.activeModels[type])]
    ELSE [ai EXCEPT !.isGenerating = TRUE]
generateContentStart(ai, type) ==
    IF ModelFound(ai, type)
    THEN [ai EXCEPT !.isGenerating = TRUE, !.calls = Append(@, ai.activeModels[type])]
    ELSE [ai EXCEPT !.isGenerating = FALSE]

RemoveAt(seq, i) == SubSeq(seq, 1, i - 1) \o SubSeq(seq, i + 1, Len(seq))

\* generateContent after its await, for the call at position i of calls: the
\* generation goes to the front of the history, the flag is cleared, and
\* updateModelUsage and updateUsage count the request
generateContentFinish(ai, i) ==
    LET model == ai.calls[i]
    IN  [ai EXCEPT !.generationHistory = <<[model |-> model]>> \o @,
                   !.isGenerating = FALSE,
                   !.calls = RemoveAt(@, i),
                   !.modelRequests = [id \in DOMAIN @ |->
                                         IF id = model THEN @[id] + 1 ELSE @[id]],
                   !.requestsToday = @ + 1]

\* n calls of generateContent for a text, each resolved before the next
RECURSIVE generateContents(_, _)
generateContents(ai, n) ==
    IF n = 0 \/ ~ModelFound(ai, "text") THEN ai
    ELSE generateContents(
             generateContentFinish(generateContentStart(ai, "text"),
                                   Len(ai.calls) + 1),
             n - 1)

\* moderateContent(content): the simulated result
moderateContent(content) == [isAppropriate |-> TRUE, flaggedContent |-> <<>>]

-----------------------------------------------------------------------------
(* The studio page: one tab's component is mounted at a time.              *)

GenTab == "ai-ad-generator"
RtcTab == "real-time-customization"

\* useEffect(..., [customizations, selectedAd, previewMode, isLivePreview])
\* (variant: previewMode missing from the dependencies)
previewEffectDepsWithoutMode == {"customizations", "selectedAd", "isLivePreview"}
previewEffectDeps == {"customizations", "selectedAd", "previewMode", "isLivePreview"}

\* the preview effect of RealTimeCustomization after a commit that changed
\* the state values named in changed
RtcPreviewEffect(canvas, state, changed) ==
    IF changed \cap previewEffectDeps # {} /\ state.isLivePreview
    THEN updatePreview(canvas, state.selectedAd, state.customizations, state.previewMode)
    ELSE canvas

\* useEffect(..., [selectedVariation, generationConfig.customizations, realTimePreview])
genEffectDeps == {"selectedVariation", "customizations", "realTimePreview"}

GenPreviewEffect(canvas, state, changed) ==
    IF changed \cap genEffectDeps # {}
       /\ state.realTimePreview /\ state.selectedVariation # Null
    THEN updateCanvasPreview(canvas, state.selectedVariation, state.customizations)
    ELSE canvas

\* the state of RealTimeCustomization at mount (no adId prop is passed)
InitialRtc(store) ==
    [selectedAd     |-> IF store.generatedAds = <<>> THEN Null ELSE store.generatedAds[1],
     customizations |-> InitialCustomizations,
     isOptimizing   |-> FALSE,
     previewMode    |-> "desktop",
     isLivePreview  |-> TRUE]

InitialGen ==
    [prompt              |-> "",
     customizations      |-> InitialGenCustomizations,
     currentStep         |-> 1,
     generatedVariations |-> <<>>,
     selectedVariation   |-> Null,
     realTimePreview     |-> TRUE]

AllDeps == previewEffectDeps \cup genEffectDeps

\* useEffect(..., [customizations.realTimeOptimization]): the effect's cleanup
\* clears the interval, and with realTimeOptimization on a new interval is
\* set that calls the performAutoOptimization of the render the effect ran
\* in, with that render's selectedAd and isOptimizing.  (optimizationScore,
\* a number only the header shows, is left out of the state.)
\* intervals: the intervals of the window still active, oldest first; ref:
\* the position of the one intervalRef.current names, 0 when it names none
\* that is active; cleanup: the last run of the effect returned its cleanup
NoTimers == [intervals |-> <<>>, ref |-> 0, cleanup |-> FALSE]

\* if (intervalRef.current) clearInterval(intervalRef.current)
clearInterval(current) ==
    IF current.ref = 0 THEN current
    ELSE [current EXCEPT !.intervals = RemoveAt(@, current.ref), !.ref = 0]

\* the cleanup the last run of the effect returned, if it returned one
EffectCleanup(current) ==
    IF current.cleanup THEN [clearInterval(current) EXCEPT !.cleanup = FALSE]
    ELSE current

\* intervalRef.current = setInterval(callback, 30000)
setInterval(current, callback) ==
    [intervals |-> Append(current.intervals, callback),
     ref       |-> Len(current.intervals) + 1,
     cleanup   |-> TRUE]

\* (variant: an effect that returns no cleanup)
IntervalEffectNoCleanup(current, state, changed) ==
    IF "realTimeOptimization" \notin changed THEN current
    ELSE IF state.customizations.realTimeOptimization
         THEN [setInterval(current, [isOptimizing |-> state.isOptimizing])
                 EXCEPT !.cleanup = FALSE]
         ELSE current
IntervalEffect(current, state, changed) ==
    IF "realTimeOptimization" \notin changed THEN current
    ELSE IF state.customizations.realTimeOptimization
         THEN setInterval(EffectCleanup(current), [isOptimizing |-> state.isOptimizing])
         ELSE EffectCleanup(current)

\* the tab's component mounts: fresh state, a fresh canvas element, and its
\* effects run once
MountGen(store) ==
    /\ activeTab' = GenTab
    /\ adStore' = [store EXCEPT !.templates = Templates]
    /\ gen' = InitialGen
    /\ genCanvas' = GenPreviewEffect(NewCanvas(400, 400), InitialGen, AllDeps)
    /\ rtc' = Null
    /\ rtcCanvas' = Null
    /\ timer' = EffectCleanup(timer)
    /\ optimizations' = 0

MountRtc(store) ==
    /\ activeTab' = RtcTab
    /\ adStore' = store
    /\ rtc' = InitialRtc(store)
    /\ rtcCanvas' = RtcPreviewEffect(NewCanvas(300, 150), InitialRtc(store), AllDeps)
    /\ timer' = IntervalEffect([timer EXCEPT !.ref = 0, !.cleanup = FALSE],
                               InitialRtc(store),
                               {"realTimeOptimization"})
    /\ optimizations' = 0
    /\ gen' = Null
    /\ genCanvas' = Null

\* an unmounted component's interval is cleared by the effect's cleanup, and
\* a run still waiting then sets state on a component that is gone
SwitchTab(tab) ==
    /\ tab # activeTab
    /\ tabSwitches < MaxTabSwitches
    /\ tabSwitches' = tabSwitches + 1
    /\ IF tab = GenTab THEN MountGen(adStore) ELSE MountRtc(adStore)
    /\ UNCHANGED <<downloads, toast, aiStore, genRuns, callVars>>

-----------------------------------------------------------------------------
(* RealTimeCustomization: its handlers.                                    *)

RtcCommit(next, changed) ==
    /\ rtc' = next
    /\ rtcCanvas' = RtcPreviewEffect(rtcCanvas, next, changed)

RtcHandleCustomizationChange(key, value) ==
    /\ activeTab = RtcTab
    /\ RtcCommit([rtc EXCEPT !.customizations[key] = value], {"customizations"})
    /\ adStore' =
         IF rtc.selectedAd # Null
         THEN updateAd(adStore, rtc.selectedAd.id,
                       [rtc.selectedAd.content EXCEPT
                           !.visualElements = WithKey(@, key, value)])
         ELSE adStore
    /\ timer' = IntervalEffect(timer, [rtc EXCEPT !.customizations[key] = value],
                               IF rtc.customizations[key] # value THEN {key} ELSE {})
    /\ UNCHANGED <<activeTab, tabSwitches, gen, genCanvas,
                   optimizations, downloads, toast, aiStore,
                   genRuns, callVars>>

\* a set state to the value the state already has commits nothing
SetPreviewMode(mode) ==
    /\ activeTab = RtcTab
    /\ RtcCommit([rtc EXCEPT !.previewMode = mode],
                 IF mode # rtc.previewMode THEN {"previewMode"} ELSE {})
    /\ UNCHANGED <<activeTab, tabSwitches, adStore, gen, genCanvas,
                   timer, optimizations, downloads, toast, aiStore,
                   genRuns, callVars>>

SetIsLivePreview(checked) ==
    /\ activeTab = RtcTab
    /\ RtcCommit([rtc EXCEPT !.isLivePreview = checked],
                 IF checked # rtc.isLivePreview THEN {"isLivePreview"} ELSE {})
    /\ UNCHANGED <<activeTab, tabSwitches, adStore, gen, genCanvas,
                   timer, optimizations, downloads, toast, aiStore,
                   genRuns, callVars>>

Min(a, b) == IF a <= b THEN a ELSE b
Max(a, b) == IF a >= b THEN a ELSE b

\* (Math.random() - 0.5) * 2 lies in [-1, 1).  Font sizes are kept in whole
\* pixels: a step is the lowest value, zero, or the value just under 1
OptimizationSteps == {-1, 0, 1}

\* fontSize: Math.max(14, Math.min(20, prev.fontSize + step))
\* (variant: the step applied without the clamp)
optimizedFontSizeUnclamped(fontSize, step) == fontSize + step
optimizedFontSize(fontSize, step) == Max(14, Min(20, fontSize + step))

\* performAutoOptimization of a render, up to its await: isOptimizing is
\* that render's value, selectedAd never changes
performAutoOptimization(isOptimizing) ==
    IF rtc.selectedAd = Null \/ isOptimizing
    THEN UNCHANGED <<rtc, optimizations>>
    ELSE /\ optimizations < MaxInFlight
         /\ rtc' = [rtc EXCEPT !.isOptimizing = TRUE]
         /\ optimizations' = optimizations + 1

OptimizationFrame ==
    UNCHANGED <<activeTab, tabSwitches, adStore, gen, genCanvas, timer,
                downloads, toast, aiStore, genRuns, callVars>>

\* the Optimize button, disabled while isOptimizing
ClickOptimize ==
    /\ activeTab = RtcTab /\ ~rtc.isOptimizing
    /\ performAutoOptimization(rtc.isOptimizing)
    /\ UNCHANGED rtcCanvas /\ OptimizationFrame

\* the interval fires: it calls the performAutoOptimization it was set with
TimerTick ==
    /\ activeTab = RtcTab
    /\ \E i \in DOMAIN timer.intervals :
          performAutoOptimization(timer.intervals[i].isOptimizing)
    /\ UNCHANGED rtcCanvas /\ OptimizationFrame

\* optimizePrompt resolves in a waiting run: the rest of
\* performAutoOptimization
FinishAutoOptimization(step) ==
    /\ activeTab = RtcTab /\ optimizations > 0
    /\ RtcCommit([rtc EXCEPT !.customizations.fontSize = optimizedFontSize(@, step),
                             !.isOptimizing = FALSE],
                 {"customizations"})
    /\ optimizations' = optimizations - 1
    /\ OptimizationFrame

\* toast({ title, ... })
Toast(title) == [title |-> title]

\* canvas.toDataURL() with no arguments: a PNG of the bitmap, which has the
\* size of the canvas element
\* (variant: a PNG of the size a canvas element has by default)
toDataURLDefaultSize(canvas) == [type |-> "image/png", width |-> 300, height |-> 150]
toDataURL(canvas) == [type |-> "image/png", width |-> canvas.width, height |-> canvas.height]

\* the template literal `${prefix}${id}.png`; an id that is undefined prints
\* as "undefined"
FileName(prefix, ad) ==
    prefix \o (IF ad = Null THEN "undefined" ELSE ToString(ad.id)) \o ".png"

\* link.download = name; link.href = href; link.click()
Download(name, href) == [name |-> name, href |-> href]

\* the Export button of the customization screen
RtcExportAd ==
    /\ activeTab = RtcTab
    /\ IF rtcCanvas = Null
       THEN UNCHANGED <<downloads, toast>>
       ELSE /\ Len(downloads) < MaxDownloads
            /\ downloads' = Append(downloads,
                                   Download(FileName("customized-ad-", rtc.selectedAd),
                                            toDataURL(rtcCanvas)))
            /\ toast' = Toast("Ad Exported")
    /\ UNCHANGED <<activeTab, tabSwitches, adStore, rtc, rtcCanvas, gen, genCanvas,
                   timer, optimizations, aiStore, genRuns, callVars>>

-----------------------------------------------------------------------------
(* AIAdGenerator: its handlers.                                            *)

GenCommit(next, changed) ==
    /\ gen' = next
    /\ genCanvas' = GenPreviewEffect(genCanvas, next, changed)

GenFrame ==
    UNCHANGED <<activeTab, tabSwitches, rtc, rtcCanvas, timer, optimizations,
                downloads, genRuns, callVars>>

\* step 1: the prompt field, and Next, disabled while the prompt is empty
SetPrompt(prompt) ==
    /\ activeTab = GenTab /\ gen.currentStep = 1
    /\ GenCommit([gen EXCEPT !.prompt = prompt], {"generationConfig"})
    /\ UNCHANGED <<adStore, aiStore, toast>> /\ GenFrame

\* the buttons that move between the steps of the wizard
GoToStep(step) ==
    /\ activeTab = GenTab
    /\ \/ gen.currentStep = 1 /\ step = 2 /\ gen.prompt # ""
       \/ gen.currentStep = 2 /\ step = 1
       \/ gen.currentStep = 3 /\ gen.generatedVariations # <<>> /\ step \in {2, 4}
       \/ gen.currentStep = 4 /\ gen.selectedVariation # Null /\ step \in {3, 1}
    /\ GenCommit([gen EXCEPT !.currentStep = step], {"currentStep"})
    /\ UNCHANGED <<adStore, aiStore, toast>> /\ GenFrame

selectTemplate(template) ==
    /\ activeTab = GenTab /\ gen.currentStep = 2
    /\ template \in adStore.templates
    /\ adStore' = [adStore EXCEPT !.selectedTemplate = template]
    /\ UNCHANGED <<gen, genCanvas, aiStore, toast>> /\ GenFrame

RECURSIVE generateAds(_, _, _)
generateAds(store, templateId, n) ==
    IF n = 0 THEN store ELSE generateAds(generateAd(store, templateId), templateId, n - 1)

\* one run of handleGenerateContent with no other handler in between; made
\* is the number of ads generateAd has stored when the run ends: 0 when the
\* run stops at its guard, at the moderation check or at the first
\* generateContent, 1 or 2 when a later call throws, 3 when it succeeds
handleGenerateContent(made) ==
    /\ activeTab = GenTab /\ gen.currentStep = 2
    /\ adStore.selectedTemplate # Null
    /\ Len(adStore.generatedAds) + 3 <= MaxAds
    /\ gen.prompt = "" => made = 0
    /\ LET first  == Len(adStore.generatedAds)
           store  == generateAds(adStore, adStore.selectedTemplate.id, made)
           newAds == SubSeq(store.generatedAds, first + 1, first + made)
       IN  /\ adStore' = store
           /\ IF made = 3
              THEN GenCommit([gen EXCEPT !.generatedVariations = newAds,
                                         !.selectedVariation = newAds[1],
                                         !.currentStep = 3],
                             {"generatedVariations", "selectedVariation", "currentStep"})
              ELSE UNCHANGED <<gen, genCanvas>>
    /\ aiStore' = generateContents(aiStore, made)
    /\ toast' = IF gen.prompt = "" THEN Toast("Missing Information")
                ELSE IF made < 3 THEN Toast("Generation Failed")
                     ELSE Toast("Success!")
    /\ GenFrame

\* handleGenerateContent, one await at a time.  A run holds what its closure
\* holds (the prompt, the template and the user of the render it was started
\* in) and its locals: moderationResult, variations, and the await it is at
NewRun(prompt, template, user) ==
    [await            |-> "moderateContent",
     prompt           |-> prompt,
     selectedTemplate |-> template,
     currentUser      |-> user,
     moderationResult |-> Null,
     variations       |-> <<>>]

\* const moderationResult = await moderateContent(generationConfig.prompt)
moderated(run, result) == [run EXCEPT !.moderationResult = result]

\* setGeneratedVariations(variations); setSelectedVariation(variations[0]);
\* setCurrentStep(3)
\* (variant: the last variation selected)
showVariationsSelectLast(state, ads) ==
    [state EXCEPT !.generatedVariations = ads,
                  !.selectedVariation = ads[Len(ads)],
                  !.currentStep = 3]
showVariations(state, ads) ==
    [state EXCEPT !.generatedVariations = ads,
                  !.selectedVariation = ads[1],
                  !.currentStep = 3]

RunFrame ==
    UNCHANGED <<activeTab, tabSwitches, rtc, rtcCanvas, timer, optimizations,
                downloads, callVars>>

\* the catch block of handleGenerateContent: the run ends
RunFails(r) ==
    /\ genRuns' = RemoveAt(genRuns, r)
    /\ toast' = Toast("Generation Failed")

\* the top of the loop body for run: generateContent is called and the run
\* waits for it, or the call throws at once
RunGeneratesContent(r, run) ==
    /\ aiStore' = generateContentStart(aiStore, "text")
    /\ IF ModelFound(aiStore, "text")
       THEN /\ genRuns' = [genRuns EXCEPT ![r] = [run EXCEPT !.await = "generateContent"]]
            /\ UNCHANGED toast
       ELSE RunFails(r)

\* (variant: the run calls generateContent at once, with no moderation of the
\* prompt)
ClickGenerateUnmoderated(user) ==
    /\ activeTab = GenTab /\ gen.currentStep = 2
    /\ adStore.selectedTemplate # Null
    /\ ~adStore.isGenerating /\ ~aiStore.isGenerating
    /\ Len(aiStore.generationHistory) + 3 * (Len(genRuns) + 1) <= MaxGenerations
    /\ aiStore' = generateContentStart(aiStore, "text")
    /\ IF ModelFound(aiStore, "text")
       THEN /\ genRuns' = Append(genRuns,
                 [NewRun(gen.prompt, adStore.selectedTemplate, user)
                     EXCEPT !.await = "generateContent"])
            /\ UNCHANGED toast
       ELSE /\ toast' = Toast("Generation Failed")
            /\ UNCHANGED genRuns
    /\ UNCHANGED <<adStore, gen, genCanvas>> /\ RunFrame

\* the Generate Ads button of step 2, disabled without a template and
\* while either store is generating: the run up to its first await
ClickGenerate(user) ==
    /\ activeTab = GenTab /\ gen.currentStep = 2
    /\ adStore.selectedTemplate # Null
    /\ ~adStore.isGenerating /\ ~aiStore.isGenerating
    /\ Len(aiStore.generationHistory) + 3 * (Len(genRuns) + 1) <= MaxGenerations
    /\ IF adStore.selectedTemplate = Null \/ gen.prompt = ""
       THEN /\ toast' = Toast("Missing Information")
            /\ UNCHANGED genRuns
       ELSE /\ genRuns' = Append(genRuns,
                                 NewRun(gen.prompt, adStore.selectedTemplate, user))
            /\ UNCHANGED toast
    /\ UNCHANGED <<adStore, aiStore, gen, genCanvas>> /\ RunFrame

\* moderateContent resolves in run r
ModerationResolves(r) ==
    /\ r \in DOMAIN genRuns /\ genRuns[r].await = "moderateContent"
    /\ LET run == moderated(genRuns[r], moderateContent(genRuns[r].prompt))
       IN  IF run.moderationResult = Null \/ ~run.moderationResult.isAppropriate
           THEN /\ toast' = Toast("Content Flag")
                /\ genRuns' = RemoveAt(genRuns, r)
                /\ UNCHANGED aiStore
           ELSE RunGeneratesContent(r, run)
    /\ UNCHANGED <<adStore, gen, genCanvas>> /\ RunFrame

\* generateContent resolves in run r, and generateAd runs up to its first
\* await
ContentResolves(r) ==
    /\ r \in DOMAIN genRuns /\ genRuns[r].await = "generateContent"
    /\ aiStore' = generateContentFinish(aiStore, 1)
    /\ IF genRuns[r].selectedTemplate \in adStore.templates
       THEN /\ adStore' = [adStore EXCEPT !.isGenerating = TRUE]
            /\ genRuns' = [genRuns EXCEPT ![r].await = "generateAd"]
            /\ UNCHANGED toast
       ELSE /\ adStore' = [adStore EXCEPT !.isGenerating = FALSE]
            /\ RunFails(r)
    /\ UNCHANGED <<gen, genCanvas>> /\ RunFrame

\* the progress loop of generateAd ends in run r: the ad is built, which
\* throws at userProfile.id without a user, and stored; after the third ad
\* the variations are shown (detectBias, which follows, keeps its findings
\* in a list no component here reads)
AdResolves(r) ==
    /\ r \in DOMAIN genRuns /\ genRuns[r].await = "generateAd"
    /\ IF genRuns[r].currentUser = Null
       THEN /\ adStore' = [adStore EXCEPT !.isGenerating = FALSE]
            /\ RunFails(r)
            /\ UNCHANGED <<aiStore, gen, genCanvas>>
       ELSE LET store == generateAd(adStore, genRuns[r].selectedTemplate.id)
                ad    == store.generatedAds[Len(store.generatedAds)]
                run   == [genRuns[r] EXCEPT !.variations = Append(@, ad)]
            IN  /\ adStore' = store
                /\ IF Len(run.variations) < 3
                   THEN /\ RunGeneratesContent(r, run)
                        /\ UNCHANGED <<gen, genCanvas>>
                   ELSE /\ IF activeTab = GenTab
                           THEN GenCommit(showVariations(gen, run.variations),
                                          {"generatedVariations", "selectedVariation",
                                           "currentStep"})
                           ELSE UNCHANGED <<gen, genCanvas>>
                        /\ genRuns' = RemoveAt(genRuns, r)
                        /\ toast' = Toast("Success!")
                        /\ UNCHANGED aiStore
    /\ RunFrame

\* step 3, Variations tab: a click on a variation's card
SetSelectedVariation(i) ==
    /\ activeTab = GenTab /\ gen.currentStep = 3
    /\ i \in DOMAIN gen.generatedVariations
    /\ GenCommit([gen EXCEPT !.selectedVariation = gen.generatedVariations[i]],
                 IF gen.generatedVariations[i] # gen.selectedVariation
                 THEN {"selectedVariation"} ELSE {})
    /\ UNCHANGED <<adStore, aiStore, toast>> /\ GenFrame

\* step 3, Content tab: typing in the headline, description or CTA field
EditContent(field, text) ==
    /\ activeTab = GenTab /\ gen.currentStep = 3
    /\ gen.generatedVariations # <<>> /\ gen.selectedVariation # Null
    /\ GenCommit([gen EXCEPT !.selectedVariation.content[field] = text],
                 {"selectedVariation"})
    /\ UNCHANGED <<adStore, aiStore, toast>> /\ GenFrame

\* step 3, Design tab
GenHandleCustomizationChange(key, value) ==
    /\ activeTab = GenTab /\ gen.currentStep = 3 /\ gen.generatedVariations # <<>>
    /\ GenCommit([gen EXCEPT !.customizations[key] = value], {"customizations"})
    /\ UNCHANGED <<adStore, aiStore, toast>> /\ GenFrame

ExportFormats == {"png", "pdf", "html"}

\* step 4: the PNG, PDF and HTML buttons
GenExportAd(format) ==
    /\ activeTab = GenTab /\ gen.currentStep = 4 /\ gen.selectedVariation # Null
    /\ IF format = "png" /\ genCanvas # Null
       THEN /\ Len(downloads) < MaxDownloads
            /\ downloads' = Append(downloads,
                                   Download(FileName("ad-", gen.selectedVariation),
                                            toDataURL(genCanvas)))
       ELSE UNCHANGED downloads
    /\ toast' = Toast("Export Complete")
    /\ UNCHANGED <<activeTab, tabSwitches, adStore, rtc, rtcCanvas, gen, genCanvas,
                   timer, optimizations, aiStore, genRuns, callVars>>

-----------------------------------------------------------------------------
(* Single calls of the pure functions.                                     *)

\* a context whose font is the description font of the given size
ContextWithFont(fontSize) ==
    SetFont(NewCanvas(600, 400), Font("normal", fontSize, "Inter"))

CallWrapText ==
    /\ wrapCall # Null /\ ~wrapCall.done /\ wrapCall.fn = "wrapText"
    /\ wrapCall' = [wrapCall EXCEPT
                       !.done = TRUE,
                       !.lines = wrapText(ContextWithFont(wrapCall.fontSize),
                                          wrapCall.text, wrapCall.maxWidth)]
    /\ UNCHANGED <<componentVars, variationCall, layoutCall>>

CallDrawText ==
    /\ wrapCall # Null /\ ~wrapCall.done /\ wrapCall.fn = "drawText"
    /\ wrapCall' = [wrapCall EXCEPT
                       !.done = TRUE,
                       !.lines = drawTextLines(ContextWithFont(wrapCall.fontSize),
                                               wrapCall.text, wrapCall.maxWidth)]
    /\ UNCHANGED <<componentVars, variationCall, layoutCall>>

\* calculateLayout called with each of the customizations of the call
CallCalculateLayout ==
    /\ layoutCall # Null /\ ~layoutCall.done
    /\ layoutCall' = [layoutCall EXCEPT
                         !.done = TRUE,
                         !.results = [i \in DOMAIN layoutCall.customizations |->
                                         calculateLayout(layoutCall.customizations[i],
                                                         layoutCall.width,
                                                         layoutCall.height)]]
    /\ UNCHANGED <<componentVars, wrapCall, variationCall>>

CallGetContentVariation ==
    /\ variationCall # Null /\ ~variationCall.done
    /\ variationCall' = [variationCall EXCEPT
                            !.done = TRUE,
                            !.result = variationAt(variationCall.type,
                                                   variationCall.originalText,
                                                   variationCall.variationIndex)]
    /\ UNCHANGED <<componentVars, wrapCall, layoutCall>>

-----------------------------------------------------------------------------
(* Inputs.                                                                 *)

\* the scenario of the specification: short copy
ScenarioContent ==
    [headline       |-> "Save Today",
     description    |-> "Get 20% off",
     callToAction   |-> "Shop Now",
     visualElements |-> [backgroundColor |-> "#ffffff",
                         textColor       |-> "#000000",
                         accentColor     |-> "#007bff"]]

\* copy of the length of an ordinary ad: six words and twelve words
LongContent ==
    [ScenarioContent EXCEPT
        !.headline    = "Big Summer Sale On All Shoes",
        !.description = "Get 20% off every pair in store and online this week only"]

EmptyContent ==
    [ScenarioContent EXCEPT !.headline = "", !.description = "", !.callToAction = ""]

StoredAd(content) == [id |-> 1, templateId |-> "3", content |-> content]

\* what the store holds when the page opens: nothing, or an ad saved before
StoredAdLists == {<<>>, <<StoredAd(ScenarioContent)>>, <<StoredAd(EmptyContent)>>}

\* the values a slider offers
SliderValues(min, max, step) == {min + (k * step) : k \in 0..((max - min) \div step)}

\* the controls of the Layout tab, and the font size slider
LayoutKeys == {"layout", "textAlignment", "padding", "fontSize"}
LayoutValues(key) ==
    CASE key = "layout"        -> {"standard", "centered", "split"}
      [] key = "textAlignment" -> {"left", "center", "right"}
      [] key = "padding"       -> SliderValues(10, 40, 5)
      [] key = "fontSize"      -> {12, 16, 24}

\* the controls of the Visual and Content tabs, some of their values
RenderKeys == {"borderRadius", "shadow", "accentColor", "headlineVariation"}
RenderValues(key) ==
    CASE key = "borderRadius"      -> {0, 8}
      [] key = "shadow"            -> {0, 2}
      [] key = "accentColor"       -> {"#007bff", "#ffffff"}
      [] key = "headlineVariation" -> {0, 1}

GenKeys == {"backgroundColor", "fontSize"}
GenValues(key) ==
    CASE key = "backgroundColor" -> {"#ffffff", "#fde047"}
      [] key = "fontSize"        -> {16, 24}

ContentFields == {"headline", "description", "callToAction"}
EditTexts == {"", "Save Today"}

WrapTexts == StringsUpTo({"a", " "}, MaxTextLen)
WrapWidths == {4 * k : k \in 1..MaxWidthUnits}

\* the numeric sliders, the ends of their ranges
BoundKeys == {"fontSize", "borderRadius", "shadow", "padding"}
BoundValues(key) ==
    CASE key = "fontSize"     -> {12, 24}
      [] key = "borderRadius" -> {0, 20}
      [] key = "shadow"       -> {0, 10}
      [] key = "padding"      -> {10, 40}

\* the sliders of the Content tab
ContentKeys == {"headlineVariation", "descriptionVariation", "ctaVariation"}
ContentValues(key) ==
    CASE key = "ctaVariation" -> SliderValues(0, 4, 1)
      [] OTHER                -> SliderValues(0, 3, 1)

\* the scenario's copy with any of its fields left empty
FieldContents ==
    {[ScenarioContent EXCEPT !.headline = h, !.description = d, !.callToAction = c] :
        h \in {"", ScenarioContent.headline},
        d \in {"", ScenarioContent.description},
        c \in {"", ScenarioContent.callToAction}}

\* layout values: the three of the Layout tab and one that is none of them
LayoutInputs == {"standard", "centered", "split", "grid"}

\* customizations that agree with InitialCustomizations on layout and padding
\* and differ in what else the render reads
OtherCustomizations ==
    {[InitialCustomizations EXCEPT !.fontSize = size, !.textAlignment = align,
                                   !.headlineVariation = index, !.shadow = depth] :
        size \in {12, 24}, align \in {"left", "center", "right"},
        index \in {0, 1}, depth \in {0, 10}}

VariationTypes == {"headline", "description", "cta"}
VariationIndices ==
    {Int2Num(n) : n \in (-MaxIndex)..MaxIndex}
        \cup {HalfAfter(n) : n \in (-1)..MaxIndex} \cup {NaN}

-----------------------------------------------------------------------------
(* Specifications.                                                         *)

NoCalls == wrapCall = Null /\ variationCall = Null /\ layoutCall = Null

\* the page has just opened on its default tab
PageOpenedWith(ads, ai) ==
    /\ activeTab = GenTab
    /\ tabSwitches = 0
    /\ adStore = [InitialAdStore EXCEPT !.templates = Templates, !.generatedAds = ads]
    /\ gen = InitialGen
    /\ genCanvas = NewCanvas(400, 400)
    /\ rtc = Null
    /\ rtcCanvas = Null
    /\ timer = NoTimers
    /\ optimizations = 0
    /\ downloads = <<>>
    /\ toast = Null
    /\ genRuns = <<>>
    /\ aiStore = ai

\* the page has just opened, the models loaded
PageOpened(ads) == PageOpenedWith(ads, loadModels(InitialAiStore))

\* the customization screen has just mounted on a store that holds ads
CustomizationOpened(ads) ==
    LET store == [InitialAdStore EXCEPT !.templates = Templates, !.generatedAds = ads]
    IN  /\ activeTab = RtcTab
        /\ tabSwitches = 0
        /\ adStore = store
        /\ rtc = InitialRtc(store)
        /\ rtcCanvas = RtcPreviewEffect(NewCanvas(300, 150), InitialRtc(store), AllDeps)
        /\ timer = IntervalEffect(NoTimers, InitialRtc(store), {"realTimeOptimization"})
        /\ optimizations = 0
        /\ downloads = <<>>
        /\ toast = Null
        /\ genRuns = <<>>
        /\ aiStore = loadModels(InitialAiStore)
        /\ gen = Null
        /\ genCanvas = Null

\* Spec: both screens, the controls that feed the render
Init ==
    /\ \E ads \in StoredAdLists : PageOpened(ads)
    /\ NoCalls

Next ==
    \/ \E tab \in {GenTab, RtcTab} : SwitchTab(tab)
    \/ \E key \in RenderKeys : \E value \in RenderValues(key) :
          RtcHandleCustomizationChange(key, value)
    \/ \E mode \in {"desktop", "mobile"} : SetPreviewMode(mode)
    \/ \E checked \in BOOLEAN : SetIsLivePreview(checked)
    \/ \E prompt \in {"", "summer sale"} : SetPrompt(prompt)
    \/ \E step \in 1..4 : GoToStep(step)
    \/ \E template \in Templates : selectTemplate(template)
    \/ \E made \in 0..3 : handleGenerateContent(made)
    \/ \E i \in 1..3 : SetSelectedVariation(i)
    \/ \E field \in ContentFields : \E text \in EditTexts : EditContent(field, text)
    \/ \E key \in GenKeys : \E value \in GenValues(key) :
          GenHandleCustomizationChange(key, value)

Spec == Init /\ [][Next]_vars

\* SpecLayout: the customization screen, the controls that feed the layout
InitLayout ==
    /\ CustomizationOpened(<<StoredAd(ScenarioContent)>>)
    /\ NoCalls

NextLayout ==
    \/ \E key \in LayoutKeys : \E value \in LayoutValues(key) :
          RtcHandleCustomizationChange(key, value)
    \/ \E mode \in {"desktop", "tablet", "mobile"} : SetPreviewMode(mode)

SpecLayout == InitLayout /\ [][NextLayout]_vars

\* SpecCopy: the customization screen of an ad with longer copy
InitCopy ==
    /\ CustomizationOpened(<<StoredAd(LongContent)>>)
    /\ NoCalls

SpecCopy == InitCopy /\ [][NextLayout]_vars

-----------------------------------------------------------------------------
(* useAIStore: the experiments.                                            *)

ExperimentStatuses == {"draft", "running", "paused", "completed"}

\* createExperiment(config): the experiment keeps the status of config and
\* gets an id no other experiment has (createdAt and updatedAt, clock
\* readings, and the fields no operation reads are left out)
createExperiment(ai, status) ==
    [ai EXCEPT !.experiments =
        Append(@, [id |-> Len(ai.experiments) + 1, status |-> status])]

\* experiments.map(exp => exp.id === experimentId ? {...exp, status} : exp)
WithStatus(experiments, experimentId, status) ==
    [i \in DOMAIN experiments |->
        IF experiments[i].id = experimentId
        THEN [experiments[i] EXCEPT !.status = status]
        ELSE experiments[i]]

\* Array.prototype.filter
RECURSIVE FilterId(_, _, _)
FilterId(experiments, experimentId, keep) ==
    IF experiments = <<>> THEN <<>>
    ELSE LET rest == FilterId(Tail(experiments), experimentId, keep)
         IN  IF (Head(experiments).id = experimentId) = keep
             THEN <<Head(experiments)>> \o rest
             ELSE rest

\* startExperiment: the experiments of state.experiments with the id, as
\* they are before the status is set, are appended to activeExperiments
startExperiment(ai, experimentId) ==
    [ai EXCEPT
        !.experiments = WithStatus(@, experimentId, "running"),
        !.activeExperiments = @ \o FilterId(ai.experiments, experimentId, TRUE)]

pauseExperiment(ai, experimentId) ==
    [ai EXCEPT !.experiments = WithStatus(@, experimentId, "paused")]

stopExperiment(ai, experimentId) ==
    [ai EXCEPT
        !.experiments = WithStatus(@, experimentId, "completed"),
        !.activeExperiments = FilterId(@, experimentId, FALSE)]

ExperimentFrame ==
    UNCHANGED <<activeTab, tabSwitches, adStore, rtc, rtcCanvas, gen, genCanvas,
                timer, optimizations, downloads, toast, genRuns, callVars>>

CreateExperiment(status) ==
    /\ Len(aiStore.experiments) < MaxExperiments
    /\ aiStore' = createExperiment(aiStore, status)
    /\ ExperimentFrame

\* the id is any string: that of an experiment or of none
StartExperiment(experimentId) ==
    /\ Len(startExperiment(aiStore, experimentId).activeExperiments) <= MaxActive
    /\ aiStore' = startExperiment(aiStore, experimentId)
    /\ ExperimentFrame

PauseExperiment(experimentId) ==
    /\ aiStore' = pauseExperiment(aiStore, experimentId)
    /\ ExperimentFrame

StopExperiment(experimentId) ==
    /\ aiStore' = stopExperiment(aiStore, experimentId)
    /\ ExperimentFrame

\* SpecExperiments: the experiment operations of the store, in any order
InitExperiments == PageOpened(<<>>) /\ NoCalls

NextExperiments ==
    \/ \E status \in ExperimentStatuses : CreateExperiment(status)
    \/ \E experimentId \in 1..(MaxExperiments + 1) : StartExperiment(experimentId)
    \/ \E experimentId \in 1..(MaxExperiments + 1) : PauseExperiment(experimentId)
    \/ \E experimentId \in 1..(MaxExperiments + 1) : StopExperiment(experimentId)

SpecExperiments == InitExperiments /\ [][NextExperiments]_vars

\* SpecWrap: one call of wrapText or drawText on any text and width
InitWrap ==
    /\ PageOpened(<<>>)
    /\ variationCall = Null /\ layoutCall = Null
    /\ \E fn \in {"wrapText", "drawText"} : \E text \in WrapTexts :
       \E maxWidth \in WrapWidths :
          wrapCall = [fn |-> fn, text |-> text, maxWidth |-> maxWidth,
                      fontSize |-> 16, lines |-> <<>>, done |-> FALSE]

NextWrap == CallWrapText \/ CallDrawText

SpecWrap == InitWrap /\ [][NextWrap]_vars

\* SpecVariation: one call of getContentVariation on any index
InitVariation ==
    /\ PageOpened(<<>>)
    /\ wrapCall = Null /\ layoutCall = Null
    /\ \E type \in VariationTypes : \E text \in EditTexts :
       \E index \in VariationIndices :
          variationCall = [type |-> type, originalText |-> text,
                           variationIndex |-> index, result |-> Undefined,
                           done |-> FALSE]

NextVariation == CallGetContentVariation

SpecVariation == InitVariation /\ [][NextVariation]_vars

\* SpecContent: the customization screen on copy with empty fields, the
\* sliders that select the variations
InitContent ==
    /\ \E content \in FieldContents : CustomizationOpened(<<StoredAd(content)>>)
    /\ NoCalls

NextContent ==
    \/ \E key \in ContentKeys : \E value \in ContentValues(key) :
          RtcHandleCustomizationChange(key, value)
    \/ \E mode \in {"desktop", "mobile"} : SetPreviewMode(mode)

SpecContent == InitContent /\ [][NextContent]_vars

\* SpecOptimize: the customization screen, its numeric sliders and the
\* auto-optimization, from the button and from the interval
InitOptimize ==
    /\ CustomizationOpened(<<StoredAd(ScenarioContent)>>)
    /\ NoCalls

NextOptimize ==
    \/ \E key \in BoundKeys : \E value \in BoundValues(key) :
          RtcHandleCustomizationChange(key, value)
    \/ ClickOptimize
    \/ TimerTick
    \/ \E step \in OptimizationSteps : FinishAutoOptimization(step)

SpecOptimize == InitOptimize /\ [][NextOptimize]_vars

\* SpecTimer: the customization screen, the Real-time Optimization switch,
\* the auto-optimization, and the tabs that mount and unmount the screen
InitTimer ==
    /\ \/ CustomizationOpened(<<StoredAd(ScenarioContent)>>)
       \/ PageOpened(<<StoredAd(ScenarioContent)>>)
    /\ NoCalls

NextTimer ==
    \/ \E checked \in BOOLEAN :
          RtcHandleCustomizationChange("realTimeOptimization", checked)
    \/ \E tab \in {GenTab, RtcTab} : SwitchTab(tab)
    \/ ClickOptimize
    \/ TimerTick
    \/ \E step \in OptimizationSteps : FinishAutoOptimization(step)

SpecTimer == InitTimer /\ [][NextTimer]_vars

\* SpecExport: both screens, the wizard up to its export step, the preview
\* controls of the customization screen, and the export buttons
InitExport ==
    /\ \E ads \in StoredAdLists : PageOpened(ads)
    /\ NoCalls

NextExport ==
    \/ \E tab \in {GenTab, RtcTab} : SwitchTab(tab)
    \/ \E mode \in {"desktop", "tablet", "mobile"} : SetPreviewMode(mode)
    \/ \E checked \in BOOLEAN : SetIsLivePreview(checked)
    \/ RtcExportAd
    \/ \E prompt \in {"", "summer sale"} : SetPrompt(prompt)
    \/ \E step \in 1..4 : GoToStep(step)
    \/ \E template \in Templates : selectTemplate(template)
    \/ \E made \in 0..3 : handleGenerateContent(made)
    \/ \E i \in 1..3 : SetSelectedVariation(i)
    \/ \E format \in ExportFormats : GenExportAd(format)

SpecExport == InitExport /\ [][NextExport]_vars

\* the signed-in user, or none
UserProfiles == {Null, [id |-> "user-1"]}

\* SpecGenerate: the wizard of the generator with handleGenerateContent one
\* await at a time, the models loaded or not, a user signed in or not
InitGenerate ==
    /\ \E ai \in {InitialAiStore, loadModels(InitialAiStore)} : PageOpenedWith(<<>>, ai)
    /\ NoCalls

NextGenerate ==
    \/ \E prompt \in {"", "summer sale"} : SetPrompt(prompt)
    \/ \E step \in 1..4 : GoToStep(step)
    \/ \E template \in Templates : selectTemplate(template)
    \/ \E user \in UserProfiles : ClickGenerate(user)
    \/ \E r \in 1..2 : ModerationResolves(r)
    \/ \E r \in 1..2 : ContentResolves(r)
    \/ \E r \in 1..2 : AdResolves(r)
    \/ \E i \in 1..3 : SetSelectedVariation(i)

SpecGenerate == InitGenerate /\ [][NextGenerate]_vars

\* SpecCalc: calculateLayout called on a layout, a padding and a surface:
\* with the initial customizations, with other customizations, and with the
\* same padding and the standard layout
InitCalc ==
    /\ PageOpened(<<>>)
    /\ wrapCall = Null /\ variationCall = Null
    /\ \E layout \in LayoutInputs : \E padding \in SliderValues(10, 40, 5) :
       \E mode \in {"desktop", "tablet", "mobile"} : \E other \in OtherCustomizations :
          layoutCall =
              [customizations |->
                   <<[InitialCustomizations EXCEPT !.layout = layout, !.padding = padding],
                     [other EXCEPT !.layout = layout, !.padding = padding],
                     [InitialCustomizations EXCEPT !.layout = "standard",
                                                   !.padding = padding]>>,
               width   |-> getCanvasDimensions(mode).width,
               height  |-> getCanvasDimensions(mode).height,
               results |-> <<>>,
               done    |-> FALSE]

NextCalc == CallCalculateLayout

SpecCalc == InitCalc /\ [][NextCalc]_vars

-----------------------------------------------------------------------------
(* Properties of the render.                                               *)

\* a render of the mounted screen would pass its guards
RtcRendering == activeTab = RtcTab /\ rtcCanvas # Null /\ rtc.selectedAd # Null
GenRendering == activeTab = GenTab /\ genCanvas # Null /\ gen.selectedVariation # Null

\* updatePreview / updateCanvasPreview called now on the given canvas
RtcRender(canvas) ==
    updatePreview(canvas, rtc.selectedAd, rtc.customizations, rtc.previewMode)
GenRender(canvas) ==
    updateCanvasPreview(canvas, gen.selectedVariation, gen.customizations)

\* the operations on the canvas drawn for element el of the ad
OpsOf(canvas, kind, el) ==
    {i \in DOMAIN canvas.ops : canvas.ops[i].kind = kind /\ canvas.ops[i].el = el}

\* C1: render idempotence.  Whatever the canvas holds before (a fresh
\* element, or the bitmap and context state an earlier render left), calling
\* updatePreview (likewise updateCanvasPreview) twice in succession on the
\* same inputs gives the surface that calling it once gives.
C1_RenderTwiceIsRenderOnce ==
    /\ RtcRendering =>
          \A start \in {rtcCanvas, NewCanvas(300, 150)} :
             LET once == RtcRender(start)
             IN  Surface(RtcRender(once)) = Surface(once)
    /\ GenRendering =>
          \A start \in {genCanvas, NewCanvas(400, 400)} :
             LET once == GenRender(start)
             IN  Surface(GenRender(once)) = Surface(once)

\* a render has left a shadow in the context of the canvas it would reuse
C1_ShadowLeftBehind ==
    /\ RtcRendering
    /\ rtcCanvas.ops # <<>>
    /\ HasShadow(rtcCanvas.ctx.state)

\* C7: full overwrite.  A render that passes its guards leaves the surface
\* that the same render leaves on a canvas never drawn on, and the first
\* thing on that surface is the background fill over the whole bitmap:
\* nothing an earlier render drew remains.
C7_FullOverwrite ==
    /\ RtcRendering =>
          LET after == RtcRender(rtcCanvas)
              first == after.ops[1]
          IN  /\ Surface(after) = Surface(RtcRender(NewCanvas(300, 150)))
              /\ first.el = "background" /\ first.x = 0 /\ first.y = 0
              /\ first.w = after.width /\ first.h = after.height
    /\ GenRendering =>
          LET after == GenRender(genCanvas)
              first == after.ops[1]
          IN  /\ Surface(after) = Surface(GenRender(NewCanvas(400, 400)))
              /\ first.el = "background" /\ first.x = 0 /\ first.y = 0
              /\ first.w = after.width /\ first.h = after.height

\* the canvas still shows a render made for another preview mode
C7_EarlierRenderOnCanvas ==
    /\ RtcRendering
    /\ rtcCanvas.ops # <<>>
    /\ rtcCanvas.width # getCanvasDimensions(rtc.previewMode).width

\* the surface shows the render of the screen's current state
RtcSurfaceCurrent == Surface(rtcCanvas) = Surface(RtcRender(NewCanvas(300, 150)))
GenSurfaceCurrent == Surface(genCanvas) = Surface(GenRender(NewCanvas(400, 400)))

\* a step of the customization screen that ends with live preview off or no
\* ad selected; a step of the generator that ends with no variation selected
RtcStepWithoutPreview ==
    /\ activeTab = RtcTab /\ activeTab' = RtcTab
    /\ (~rtc'.isLivePreview \/ rtc'.selectedAd = Null)
GenStepWithoutPreview ==
    /\ activeTab = GenTab /\ activeTab' = GenTab
    /\ (~gen'.realTimePreview \/ gen'.selectedVariation = Null)

\* in every state with the preview on, the surface is the current render
PreviewCurrent ==
    /\ (RtcRendering /\ rtc.isLivePreview) => RtcSurfaceCurrent
    /\ (GenRendering /\ gen.realTimePreview) => GenSurfaceCurrent

\* a step that ends with the preview off leaves the canvas as it was
PreviewOffKeepsCanvas ==
    /\ RtcStepWithoutPreview => (rtcCanvas' = rtcCanvas)
    /\ GenStepWithoutPreview => (genCanvas' = genCanvas)

\* C9: live-preview consistency.  Whenever live preview is on and an ad is
\* selected, the surface equals the render of the current content,
\* customizations and preview mode; a change that ends with live preview off
\* or with no ad selected leaves the canvas as it was.
C9_LivePreviewConsistent == []PreviewCurrent /\ [][PreviewOffKeepsCanvas]_vars

\* live preview is on after the preview mode and a customization have changed
C9_LiveAfterChanges ==
    /\ RtcRendering /\ rtc.isLivePreview
    /\ rtc.previewMode = "mobile"
    /\ rtc.customizations.borderRadius # InitialCustomizations.borderRadius
    /\ rtcCanvas.width = 320

\* C8: clip ordering.  When borderRadius > 0 every operation of the render
\* (background fill, gradient, texts, button) is drawn under the rounded
\* clip; when borderRadius = 0 none is.
C8_ClipBeforeEveryDraw ==
    (RtcRendering /\ rtc.isLivePreview) =>
        \A i \in DOMAIN rtcCanvas.ops :
            (rtcCanvas.ops[i].state.clip # <<>>) <=> (rtc.customizations.borderRadius > 0)

\* the element of the ad a content field is drawn as
ElementOf(field) == IF field = "callToAction" THEN "cta" ELSE field

\* the field's variation slider selects the original text
SelectsOriginal(field) ==
    LET index == rtc.customizations[ElementOf(field) \o "Variation"]
    IN  index <= 0 \/ index >= Len(variations(ElementOf(field), ""))

\* C10, as stated: for every customization and every variation selector,
\* an empty content field has no text drawn for it.
C10_EmptyFieldDrawsNoText ==
    (RtcRendering /\ rtc.isLivePreview) =>
        \A field \in ContentFields :
            (rtc.selectedAd.content[field] = ""
                => OpsOf(rtcCanvas, "text", ElementOf(field)) = {})

\* C10, amended: an empty content field whose variation slider selects the
\* original text has no text drawn for it, for every other customization.
C10_EmptyOriginalDrawsNoText ==
    (RtcRendering /\ rtc.isLivePreview) =>
        \A field \in ContentFields :
            ((rtc.selectedAd.content[field] = "" /\ SelectsOriginal(field))
                => OpsOf(rtcCanvas, "text", ElementOf(field)) = {})

\* an ad with an empty headline is rendered with its original headline while
\* another field shows a variant
C10_EmptyHeadlineRendered ==
    /\ RtcRendering /\ rtc.isLivePreview
    /\ rtc.selectedAd.content.headline = ""
    /\ rtc.customizations.headlineVariation = 0
    /\ rtc.customizations.ctaVariation > 0
    /\ OpsOf(rtcCanvas, "rect", "cta") # {}

-----------------------------------------------------------------------------
(* Properties of the word wrap.                                            *)

\* the measured width of a line in the font of the call
LineWidth(line) == measureText(ContextWithFont(wrapCall.fontSize), line)

\* a line without a space: at most one word
SingleWord(line) == \A i \in 1..Len(line) : SubSeq(line, i, i) # " "

\* C2: word-wrap width bound.  Every line of drawText / wrapText measures at
\* most maxWidth, unless it is one single word wider than maxWidth; and
\* every word wider than maxWidth is a line of its own in the result.
C2_WrapWidthBound ==
    (wrapCall # Null /\ wrapCall.done) =>
        /\ \A i \in DOMAIN wrapCall.lines :
              \/ LineWidth(wrapCall.lines[i]) <= wrapCall.maxWidth
              \/ SingleWord(wrapCall.lines[i])
        /\ \A k \in DOMAIN Split(wrapCall.text) :
              (LineWidth(Split(wrapCall.text)[k]) > wrapCall.maxWidth
                  => \E i \in DOMAIN wrapCall.lines :
                        wrapCall.lines[i] = Split(wrapCall.text)[k])

\* a wrap that broke the text and had to emit a word wider than maxWidth
C2_OverwideWordEmitted ==
    /\ wrapCall # Null /\ wrapCall.done
    /\ Len(wrapCall.lines) > 1
    /\ \E i \in DOMAIN wrapCall.lines : LineWidth(wrapCall.lines[i]) > wrapCall.maxWidth
    /\ \E i \in DOMAIN wrapCall.lines : ~SingleWord(wrapCall.lines[i])

-----------------------------------------------------------------------------
(* Properties of the layout.                                               *)

\* the horizontal extent of a text region of the given maxWidth, placed
\* relative to its anchor x as the text alignment places the text
Extent(x, maxWidth, align) ==
    CASE align = "center"          -> [from |-> x - (maxWidth \div 2), to |-> x + (maxWidth \div 2)]
      [] align \in {"right", "end"} -> [from |-> x - maxWidth, to |-> x]
      [] OTHER                     -> [from |-> x, to |-> x + maxWidth]

\* C3: layout bounds.  For every layout, surface, padding and text
\* alignment the CTA rectangle and the headline and description regions,
\* extended by maxWidth as the alignment in effect at the draw places them,
\* lie within the surface.
C3_RegionsWithinSurface ==
    RtcRendering =>
        LET layout == calculateLayout(rtc.customizations, rtcCanvas.width, rtcCanvas.height)
        IN  /\ layout.cta.x >= 0 /\ layout.cta.x + layout.cta.width <= rtcCanvas.width
            /\ layout.cta.y >= 0 /\ layout.cta.y + layout.cta.height <= rtcCanvas.height
            /\ \A el \in {"headline", "description"} :
                  \A i \in OpsOf(rtcCanvas, "text", el) :
                     LET extent == Extent(layout[el].x, layout[el].maxWidth,
                                          rtcCanvas.ops[i].state.textAlign)
                     IN  /\ extent.from >= 0 /\ extent.to <= rtcCanvas.width
                         /\ layout[el].y >= 0 /\ layout[el].y <= rtcCanvas.height

\* the scenario: standard layout, padding 20, font size 16, desktop surface
StandardScenario ==
    /\ RtcRendering
    /\ rtc.customizations.layout = "standard"
    /\ rtc.customizations.padding = 20
    /\ rtc.customizations.fontSize = 16
    /\ rtcCanvas.width = 600 /\ rtcCanvas.height = 400

\* the first baseline of the text drawn for el is at (x, y)
FirstBaselineAt(canvas, el, x, y) ==
    /\ OpsOf(canvas, "text", el) # {}
    /\ LET first == CHOOSE i \in OpsOf(canvas, "text", el) :
                        \A j \in OpsOf(canvas, "text", el) : i <= j
       IN  canvas.ops[first].x = x /\ canvas.ops[first].y = y /\ canvas.ops[first].dy3 = 0

\* the CTA rectangle is drawn at (x, y) with the given size
CtaRectangleAt(canvas, x, y, width, height) ==
    /\ OpsOf(canvas, "rect", "cta") # {}
    /\ \A i \in OpsOf(canvas, "rect", "cta") :
          /\ canvas.ops[i].x = x /\ canvas.ops[i].y = y
          /\ canvas.ops[i].w = width /\ canvas.ops[i].h = height

\* C5, as stated: in the scenario the headline's first baseline is at
\* (20, 44), the description's at (20, 100), the CTA rectangle at
\* (20, 340) with size 120 x 40.
C5_ScenarioAsStated ==
    StandardScenario =>
        /\ FirstBaselineAt(rtcCanvas, "headline", 20, 44)
        /\ FirstBaselineAt(rtcCanvas, "description", 20, 100)
        /\ CtaRectangleAt(rtcCanvas, 20, 340, 120, 40)

\* C5, amended: in the scenario the headline's first baseline is at
\* (20, 60), the description's at (20, 120), the CTA rectangle at
\* (20, 330) with size 120 x 40.
C5_ScenarioAsDrawn ==
    StandardScenario =>
        /\ FirstBaselineAt(rtcCanvas, "headline", 20, 60)
        /\ FirstBaselineAt(rtcCanvas, "description", 20, 120)
        /\ CtaRectangleAt(rtcCanvas, 20, 330, 120, 40)

\* the scenario, reached again after the controls were moved away from it
C5_ScenarioRendered ==
    /\ StandardScenario
    /\ rtc.customizations.textAlignment = "right"
    /\ OpsOf(rtcCanvas, "text", "headline") # {}

\* C6: centered layout on the mobile surface.  Headline and description are
\* drawn at x = 160 with center text alignment and the CTA rectangle at
\* x = 100 with width 120, for every padding.
C6_CenteredOnMobile ==
    (RtcRendering /\ rtc.customizations.layout = "centered" /\ rtcCanvas.width = 320) =>
        /\ \A el \in {"headline", "description"} :
              /\ OpsOf(rtcCanvas, "text", el) # {}
              /\ \A i \in OpsOf(rtcCanvas, "text", el) :
                    /\ rtcCanvas.ops[i].x = 160
                    /\ rtcCanvas.ops[i].state.textAlign = "center"
        /\ \A i \in OpsOf(rtcCanvas, "rect", "cta") :
              rtcCanvas.ops[i].x = 100 /\ rtcCanvas.ops[i].w = 120

-----------------------------------------------------------------------------
(* Properties of the content variations.                                   *)

\* the index lies outside the variant array of the call's field
OutOfBounds(call) ==
    \/ call.variationIndex.kind # "int"
    \/ call.variationIndex.n < 0
    \/ call.variationIndex.n >= Len(variations(call.type, call.originalText))

\* C4: variation fallback.  For every field and every index outside the
\* field's variant array (negative, too large, not an integer)
\* getContentVariation returns the original text, never undefined.
C4_VariationFallback ==
    (variationCall # Null /\ variationCall.done /\ OutOfBounds(variationCall)) =>
        /\ variationCall.result.defined
        /\ variationCall.result.value = variationCall.originalText

\* a call with an index that is not an integer has returned
C4_NonIntegerIndexTried ==
    /\ variationCall # Null /\ variationCall.done
    /\ variationCall.variationIndex.kind = "half"
    /\ variationCall.originalText # ""

-----------------------------------------------------------------------------
(* Properties of the customizations.                                       *)

\* C11: bounded customization.  Through the sliders and any number of
\* auto-optimizations fontSize stays in [12, 24], borderRadius in [0, 20],
\* shadow in [0, 10] and padding in [10, 40].
C11_CustomizationsBounded ==
    activeTab = RtcTab =>
        /\ rtc.customizations.fontSize \in 12..24
        /\ rtc.customizations.borderRadius \in 0..20
        /\ rtc.customizations.shadow \in 0..10
        /\ rtc.customizations.padding \in 10..40

\* an auto-optimization has finished on a font size set at the top of the
\* slider and has brought it down to its own upper limit
C11_OptimizedFromSliderEnd ==
    /\ activeTab = RtcTab
    /\ rtc.customizations.fontSize = 20
    /\ optimizations = 0
    /\ adStore.generatedAds[1].content.visualElements.fontSize = 24

\* C12: layout determinism.  Calls of calculateLayout that agree on layout,
\* width, height and padding return the same regions whatever the other
\* customizations, and a layout other than centered or split gives the
\* regions of the standard layout.
C12_LayoutDeterministic ==
    (layoutCall # Null /\ layoutCall.done) =>
        /\ layoutCall.results[1] = layoutCall.results[2]
        /\ (layoutCall.customizations[1].layout \notin {"centered", "split"}
              => layoutCall.results[1] = layoutCall.results[3])

\* a layout that is none of the three was laid out under customizations that
\* differ in font size
C12_UnknownLayoutTried ==
    /\ layoutCall # Null /\ layoutCall.done
    /\ layoutCall.customizations[1].layout = "grid"
    /\ layoutCall.customizations[2].fontSize # layoutCall.customizations[1].fontSize
    /\ layoutCall.results[2] # <<>>

-----------------------------------------------------------------------------
(* Properties of the export.                                               *)

\* a step that starts a download, and the download it starts
ExportedNow == Len(downloads') = Len(downloads) + 1
Exported == downloads'[Len(downloads')]

\* the surface has been rendered on
Rendered(canvas) == canvas # Null /\ canvas.ops # <<>>

PngOfSurface(download, canvas) ==
    /\ download.href.type = "image/png"
    /\ download.href.width > 0 /\ download.href.height > 0
    /\ download.href.width = canvas.width
    /\ download.href.height = canvas.height

\* an export from a rendered surface gives a PNG of the surface's size, the
\* size of a preview mode (of the current one when the preview is live) on
\* the customization screen, the fixed size in the generator
ExportGivesSurface ==
    /\ (ExportedNow /\ activeTab = RtcTab /\ Rendered(rtcCanvas)) =>
          /\ PngOfSurface(Exported, rtcCanvas)
          /\ \E mode \in {"desktop", "tablet", "mobile"} :
                /\ rtc.isLivePreview => mode = rtc.previewMode
                /\ Exported.href.width = getCanvasDimensions(mode).width
                /\ Exported.href.height = getCanvasDimensions(mode).height
    /\ (ExportedNow /\ activeTab = GenTab /\ Rendered(genCanvas)) =>
          /\ PngOfSurface(Exported, genCanvas)
          /\ Exported.href.width = 400 /\ Exported.href.height = 400

\* C13: PNG export.  After a render, either exportAd starts the download of
\* a non-empty PNG whose width and height are those of the surface: the
\* dimensions of the preview mode of the last render.
C13_ExportIsPngOfSurface == [][ExportGivesSurface]_vars

\* the generator's preview and then the customization screen's mobile
\* preview were exported
C13_BothExported ==
    /\ Len(downloads) = 2
    /\ downloads[1].href = [type |-> "image/png", width |-> 400, height |-> 400]
    /\ downloads[2].href.width = getCanvasDimensions("mobile").width
    /\ activeTab = RtcTab /\ Rendered(rtcCanvas) /\ ~rtc.isLivePreview
    /\ rtc.previewMode = "desktop"

\* the ad the mounted screen has selected
SelectedAd == IF activeTab = GenTab THEN gen.selectedVariation ELSE rtc.selectedAd

NamedAfterSelectedAd ==
    ExportedNow =>
        /\ SelectedAd # Null
        /\ \E i \in DOMAIN adStore.generatedAds : adStore.generatedAds[i].id = SelectedAd.id
        /\ Exported.name =
              (IF activeTab = GenTab THEN "ad-" ELSE "customized-ad-")
                  \o ToString(SelectedAd.id) \o ".png"

\* C14: export file name.  Every PNG download is named after the selected
\* ad, ad-{id}.png from the generator and customized-ad-{id}.png from the
\* customization screen, id being the id of an existing selected ad; no
\* download starts when no ad is selected.
C14_NamedAfterSelectedAd == [][NamedAfterSelectedAd]_vars

ReportedComplete == toast' = Toast("Export Complete")

ExportStub(format) ==
    GenExportAd(format) =>
        /\ format \in {"pdf", "html"} =>
              UNCHANGED <<downloads, gen, genCanvas, rtc, rtcCanvas, adStore>>
        /\ ExportedNow => (format = "png" /\ gen.selectedVariation # Null /\ genCanvas # Null)
        /\ ReportedComplete => ExportedNow

ExportStubs == \A format \in ExportFormats : ExportStub(format)

\* C20: export stubs.  exportAd('pdf') and exportAd('html') start no download
\* and change no component or store state; only exportAd('png') with a
\* selected variation and a mounted canvas starts a download; an export is
\* reported complete only when a file was produced.
C20_ExportStubs == [][ExportStubs]_vars

-----------------------------------------------------------------------------
(* Properties of the shadow and of the text blocks.                        *)

\* the shadow fields of a drawing state
ShadowOf(state) ==
    [color |-> state.shadowColor, blur |-> state.shadowBlur,
     offsetX |-> state.shadowOffsetX, offsetY |-> state.shadowOffsetY]

ShadowOfDepth(shadow) ==
    [color |-> "rgba(0, 0, 0, 0.1)", blur |-> 2 * shadow,
     offsetX |-> shadow, offsetY |-> shadow]

\* the last operation drawn on a canvas
LastOp(c) == c.ops[Len(c.ops)]

\* the shadow step on context c: the state it leaves, and the state a draw
\* that follows it is made with
ShadowStepOn(c, customizations) ==
    LET after == applyShadow(c, customizations)
        next  == FillRect(after, "probe", 10, 10, 20, 20)
    IN  IF customizations.shadow > 0
        THEN /\ ShadowOf(after.ctx.state) = ShadowOfDepth(customizations.shadow)
             /\ HasShadow(LastOp(next).state)
             /\ ShadowOf(LastOp(next).state) = ShadowOfDepth(customizations.shadow)
        ELSE after = c

\* C15: shadow step.  With shadow > 0 the render sets the context shadow to
\* blur 2*shadow, both offsets shadow and the colour rgba(0, 0, 0, 0.1), and
\* a draw that follows is made under that shadow; with shadow = 0 the shadow
\* state is left as it was.  (Without a clip to restore, the state the render
\* ends in is the state the step has left.)
C15_ShadowStep ==
    (RtcRendering /\ rtc.isLivePreview) =>
        /\ ShadowStepOn(rtcCanvas, rtc.customizations)
        /\ ShadowStepOn(NewCanvas(rtcCanvas.width, rtcCanvas.height), rtc.customizations)
        /\ rtc.customizations.borderRadius = 0 =>
              ShadowOf(rtcCanvas.ctx.state) =
                  (IF rtc.customizations.shadow > 0
                   THEN ShadowOfDepth(rtc.customizations.shadow)
                   ELSE ShadowOf(DefaultState))

\* a render with a shadow and no rounded corners has ended
C15_ShadowSet ==
    /\ RtcRendering /\ rtc.isLivePreview
    /\ rtc.customizations.shadow = 2 /\ rtc.customizations.borderRadius = 0
    /\ rtcCanvas.ctx.state.shadowBlur = 4

\* the width of line k joined to the first word of line k + 1
JoinedWidth(lines, k) == LineWidth(lines[k] \o " " \o Split(lines[k + 1])[1])

\* C16: greedy maximality of the wrap.  The first word of a line did not fit
\* on the line before it: the two joined by a space measure maxWidth or
\* more; and a word was appended only where the joined line measures
\* strictly less than maxWidth.
C16_GreedyMaximal ==
    (wrapCall # Null /\ wrapCall.done) =>
        /\ \A k \in 1..(Len(wrapCall.lines) - 1) :
              JoinedWidth(wrapCall.lines, k) >= wrapCall.maxWidth
        /\ \A k \in DOMAIN wrapCall.lines :
              ~SingleWord(wrapCall.lines[k]) => LineWidth(wrapCall.lines[k]) < wrapCall.maxWidth

\* a word that would have filled the line to exactly maxWidth started a new
\* line, after a line of several words
C16_ExactFitBroken ==
    /\ wrapCall # Null /\ wrapCall.done /\ wrapCall.fn = "wrapText"
    /\ \E k \in 1..(Len(wrapCall.lines) - 1) :
          /\ JoinedWidth(wrapCall.lines, k) = wrapCall.maxWidth
          /\ ~SingleWord(wrapCall.lines[k])
          /\ HasGlyph(wrapCall.lines[k + 1])

\* drawText: y + (index * (customizations.fontSize + 5))
LineGap == 5

\* the text operations of element el lie on one x, each one line height of
\* fontSize + LineGap below the one before it
LinesPlaced(canvas, el, fontSize) ==
    \A i \in OpsOf(canvas, "text", el) : \A j \in OpsOf(canvas, "text", el) :
        (i < j /\ ~\E k \in OpsOf(canvas, "text", el) : i < k /\ k < j) =>
            /\ canvas.ops[j].x = canvas.ops[i].x
            /\ canvas.ops[j].y = canvas.ops[i].y + (fontSize + LineGap)

RtcLinesPlaced ==
    (RtcRendering /\ rtc.isLivePreview) =>
        \A el \in {"headline", "description"} :
            LinesPlaced(rtcCanvas, el, rtc.customizations.fontSize)

GenLinesPlaced ==
    (GenRendering /\ gen.realTimePreview) =>
        \A el \in {"headline", "description"} :
            LinesPlaced(genCanvas, el, gen.customizations.fontSize)

\* C17: line placement.  In both render paths line i of a wrapped text block
\* anchored at (x, y) is drawn at (x, y + i*(fontSize + lineGap)), with the
\* one lineGap of drawText, at every font size.
C17_LinePlacement == RtcLinesPlaced /\ GenLinesPlaced

SplitRendered == RtcRendering /\ rtc.isLivePreview /\ rtc.customizations.layout = "split"

\* C18: split-layout policy.  With the split layout, on every surface and
\* for every padding, the headline and description regions have x = padding
\* and maxWidth = width/2 - padding, so they end at width/2, and their lines
\* are anchored at x = padding; the CTA rectangle lies within
\* [width/2, width] and its vertical centre is at height/2.
C18_SplitPolicy ==
    SplitRendered =>
        LET width   == rtcCanvas.width
            height  == rtcCanvas.height
            padding == rtc.customizations.padding
            layout  == calculateLayout(rtc.customizations, width, height)
        IN  /\ \A el \in {"headline", "description"} :
                  /\ layout[el].x = padding
                  /\ layout[el].maxWidth = (width \div 2) - padding
                  /\ 2 * (layout[el].x + layout[el].maxWidth) = width
                  /\ \A i \in OpsOf(rtcCanvas, "text", el) : rtcCanvas.ops[i].x = padding
            /\ OpsOf(rtcCanvas, "rect", "cta") # {}
            /\ \A i \in OpsOf(rtcCanvas, "rect", "cta") :
                  LET cta == rtcCanvas.ops[i]
                  IN  /\ cta = [cta EXCEPT !.x = layout.cta.x, !.y = layout.cta.y,
                                           !.w = layout.cta.width, !.h = layout.cta.height]
                      /\ 2 * cta.x >= width
                      /\ cta.x + cta.w <= width
                      /\ 2 * cta.y + cta.h = height

\* the split layout on the narrowest surface with the widest padding: the
\* CTA rectangle ends at the surface's right edge
C18_SplitOnMobile ==
    /\ SplitRendered
    /\ rtcCanvas.width = 320 /\ rtc.customizations.padding = 40
    /\ \E i \in OpsOf(rtcCanvas, "rect", "cta") :
          rtcCanvas.ops[i].x + rtcCanvas.ops[i].w = 320

\* what a drawn line of text measures in the font it was drawn with
DrawnWidth(op) == Len(op.text) * CharWidth(op.state.font)

\* every line drawn for el is what the word wrap leaves: no wider than
\* maxWidth, unless it is a single word
Wrapped(canvas, el, maxWidth) ==
    \A i \in OpsOf(canvas, "text", el) :
        DrawnWidth(canvas.ops[i]) <= maxWidth \/ SingleWord(canvas.ops[i].text)

RtcTextWrapped ==
    (RtcRendering /\ rtc.isLivePreview) =>
        \A el \in {"headline", "description"} :
            Wrapped(rtcCanvas, el,
                    calculateLayout(rtc.customizations, rtcCanvas.width,
                                    rtcCanvas.height)[el].maxWidth)

GenTextWrapped ==
    (GenRendering /\ gen.realTimePreview) =>
        \A el \in {"headline", "description"} :
            Wrapped(genCanvas, el, genCanvas.width - 40)

\* C19: both text fields are wrapped in every render path.  The headline
\* and the description are drawn as the lines the word wrap makes of them
\* against their region's maxWidth: a headline longer than maxWidth is drawn
\* on several lines.
C19_BothFieldsWrapped == RtcTextWrapped /\ GenTextWrapped

-----------------------------------------------------------------------------
(* Properties of the generation.                                           *)

\* a run of handleGenerateContent ends in this step, without success
RunEndsFailed == Len(genRuns') < Len(genRuns) /\ toast' # Toast("Success!")

\* generation enters step 3 in this step (the Back button of step 4 leaves
\* the variations as they are)
EntersStepThree ==
    \/ gen.currentStep \in {1, 2} /\ gen'.currentStep = 3
    \/ gen'.generatedVariations # gen.generatedVariations

\* the variations shown are three ads of the store, each generated once
ThreeGenerated(state, store) ==
    /\ Len(state.generatedVariations) = 3
    /\ \A i \in 1..3 : \E k \in DOMAIN store.generatedAds :
          store.generatedAds[k] = state.generatedVariations[i]
    /\ \A i \in 1..3 : \A j \in 1..3 :
          i # j => state.generatedVariations[i].id # state.generatedVariations[j].id
    /\ state.selectedVariation = state.generatedVariations[1]

WizardStep ==
    /\ gen'.currentStep \in 1..4
    /\ EntersStepThree =>
          /\ gen'.currentStep = 3
          /\ ThreeGenerated(gen', adStore')
          /\ Len(adStore'.generatedAds) = Len(adStore.generatedAds) + 1
          /\ toast' = Toast("Success!")
    /\ RunEndsFailed =>
          /\ gen'.currentStep = gen.currentStep
          /\ gen'.generatedVariations = gen.generatedVariations
          /\ gen'.selectedVariation = gen.selectedVariation

\* C21: wizard steps.  currentStep stays in 1..4; generation enters step 3
\* only with the third ad of a run, generatedVariations then holding that
\* run's three ads and selectedVariation the first; a run that fails or is
\* rejected leaves currentStep, generatedVariations and selectedVariation as
\* they are.
C21_WizardSteps == [][WizardStep]_vars

\* a run has failed after its first generateContent had resolved, and the
\* wizard is still at step 2 with no variations
C21_FailedAfterFirstAd ==
    /\ toast = Toast("Generation Failed")
    /\ genRuns = <<>>
    /\ gen.currentStep = 2 /\ gen.generatedVariations = <<>>
    /\ aiStore.generationHistory # <<>>

\* the run has passed the guard and the moderation of its prompt
Moderated(run) ==
    /\ run.selectedTemplate # Null /\ run.prompt # ""
    /\ run.moderationResult # Null
    /\ run.moderationResult.isAppropriate

\* every run that waits for generateContent or generateAd has passed the gate
GenerationGated ==
    \A r \in DOMAIN genRuns :
        genRuns[r].await \in {"generateContent", "generateAd"} => Moderated(genRuns[r])

\* the run takes a step that may call generateContent or generateAd
PassesGate(run) ==
    /\ run.selectedTemplate # Null /\ run.prompt # ""
    /\ \/ Moderated(run)
       \/ run.await = "moderateContent" /\ moderateContent(run.prompt).isAppropriate

Rejected ==
    /\ toast' # toast
    /\ toast' \in {Toast("Missing Information"), Toast("Content Flag")}

GatedStep ==
    /\ (aiStore' # aiStore \/ adStore'.generatedAds # adStore.generatedAds
           \/ adStore'.isGenerating # adStore.isGenerating)
          => \E r \in DOMAIN genRuns :
                /\ PassesGate(genRuns[r])
                /\ (r \notin DOMAIN genRuns' \/ genRuns'[r] # genRuns[r])
    /\ Rejected => (aiStore' = aiStore /\ adStore' = adStore)

\* C22: moderation gate.  In every run of handleGenerateContent,
\* generateContent and generateAd are called only with a template selected,
\* a prompt that is not empty and moderateContent's isAppropriate = true for
\* that prompt; a run stopped by one of the three calls neither and adds no
\* ad to the store.
C22_ModerationGate == []GenerationGated /\ [][GatedStep]_vars

\* a moderated run has stored its first ad and waits for the second
C22_GeneratingAfterModeration ==
    \E r \in DOMAIN genRuns :
        /\ genRuns[r].await = "generateAd"
        /\ Len(genRuns[r].variations) = 1
        /\ genRuns[r].moderationResult = moderateContent(genRuns[r].prompt)
        /\ Len(adStore.generatedAds) = 1

-----------------------------------------------------------------------------
(* Properties of the wrapped text.                                         *)

\* C23: word-wrap preserves the text.  For every text and maxWidth the
\* lines of wrapText and of drawText, joined with single spaces, are the
\* input text exactly (no word dropped, duplicated or reordered), and there
\* are at least one line and at most as many lines as words.
C23_WrapPreservesText ==
    (wrapCall # Null /\ wrapCall.done) =>
        /\ Join(wrapCall.lines) = wrapCall.text
        /\ Len(wrapCall.lines) >= 1
        /\ Len(wrapCall.lines) <= Len(Split(wrapCall.text))

\* a text of three words wrapped into two lines
C23_WordsRegrouped ==
    /\ wrapCall # Null /\ wrapCall.done
    /\ Len(Split(wrapCall.text)) = 3
    /\ Len(wrapCall.lines) = 2
    /\ \A k \in DOMAIN Split(wrapCall.text) : Split(wrapCall.text)[k] # ""

-----------------------------------------------------------------------------
(* Properties of the shadow across renders.                                *)

DrawnUnderShadow(canvas) ==
    \E i \in DOMAIN canvas.ops : HasShadow(canvas.ops[i].state)

\* C24: no draw under shadow.  Across any sequence of renders with any
\* shadow and borderRadius, no fill (background, gradient, text, button) is
\* executed while the context has a shadow: the shadow a render sets at its
\* end is cleared by restore or by the canvas resize before the next render
\* draws anything.
C24_NoDrawUnderShadow == rtcCanvas # Null => ~DrawnUnderShadow(rtcCanvas)

\* a render with a shadow and without a border radius on the mobile bitmap:
\* the shadow is still set in the context the next render starts from
C24_ShadowKeptUntilResize ==
    /\ RtcRendering
    /\ rtc.customizations.shadow > 0 /\ rtc.customizations.borderRadius = 0
    /\ rtc.previewMode = "mobile" /\ rtcCanvas.width = 320
    /\ Len(rtcCanvas.ops) >= 3
    /\ HasShadow(rtcCanvas.ctx.state)

-----------------------------------------------------------------------------
(* Properties of the text blocks.                                          *)

BlocksApart(canvas, customizations) ==
    LET layout == calculateLayout(customizations, canvas.width, canvas.height)
    IN  /\ \A i \in OpsOf(canvas, "text", "headline") :
              canvas.ops[i].y < layout.description.y
        /\ \A i \in OpsOf(canvas, "text", "description") :
              /\ customizations.layout \in {"standard", "centered"}
                    => canvas.ops[i].y <= layout.cta.y
              /\ canvas.ops[i].y <= canvas.height

\* C25: text blocks do not collide.  For every layout, padding, font size
\* and copy, every line of the wrapped headline is drawn above the first
\* baseline of the description, and every line of the wrapped description
\* above the top edge of the CTA rectangle (standard and centered layouts)
\* and above the bottom of the surface.
C25_TextBlocksApart ==
    RtcRendering => BlocksApart(rtcCanvas, rtc.customizations)

-----------------------------------------------------------------------------
(* Properties of the auto-optimization and its timer.                      *)

\* C26: auto-optimization is mutually exclusive.  At any time at most one
\* execution of performAutoOptimization is between its setIsOptimizing(true)
\* and its setIsOptimizing(false), for every interleaving of the interval
\* callback, clicks on the Optimize button and re-renders.
C26_OneOptimizationAtATime == optimizations <= 1

\* the customization screen is mounted with the option switched on
OptimizationOn ==
    activeTab = RtcTab /\ rtc # Null /\ rtc.customizations.realTimeOptimization

\* C27: timer lifecycle.  After any sequence of toggles of
\* realTimeOptimization, mounts and unmounts, at most one interval is active,
\* one is active exactly while the component is mounted with the option on,
\* and so no tick starts an optimization after the option was switched off
\* or the component unmounted.
C27_TimerLifecycle ==
    /\ Len(timer.intervals) <= 1
    /\ Len(timer.intervals) = 1 <=> OptimizationOn
    /\ timer.intervals # <<>> => timer.ref = 1

\* the option was switched off and on again while a run was waiting: the one
\* interval is the one set by the later render
C27_TimerSetAgain ==
    /\ OptimizationOn
    /\ Len(timer.intervals) = 1
    /\ timer.intervals[1].isOptimizing

-----------------------------------------------------------------------------
(* Properties of the store behind the customization screen.                *)

\* the ad of the store that the screen has selected
StoreAd ==
    LET i == CHOOSE i \in DOMAIN adStore.generatedAds :
                 adStore.generatedAds[i].id = rtc.selectedAd.id
    IN  adStore.generatedAds[i]

\* the keys handleCustomizationChange has set to another value than the
\* screen starts with; customizations holds the value set last
ChangedKeys ==
    {key \in DOMAIN rtc.customizations :
        rtc.customizations[key] # InitialCustomizations[key]}

\* C28: store write-through keeps every change.  After any sequence of
\* handleCustomizationChange(key, value) calls on the selected ad, the ad's
\* content.visualElements in the store holds the value set last for every
\* key that was changed: a later change to one key does not revert an
\* earlier change to another.
C28_StoreKeepsEveryChange ==
    RtcRendering =>
        \A key \in ChangedKeys :
            /\ key \in DOMAIN StoreAd.content.visualElements
            /\ StoreAd.content.visualElements[key] = rtc.customizations[key]

-----------------------------------------------------------------------------
(* Properties of useAIStore.                                               *)

\* isGenerating is true exactly while a call of generateContent is in flight
FlagFollowsCalls == aiStore.isGenerating <=> aiStore.calls # <<>>

\* a step taken while no model is active: a call made in it throws
ThrowAddsNothing ==
    ~ModelFound(aiStore, "text") =>
        /\ aiStore'.generationHistory = aiStore.generationHistory
        /\ aiStore'.modelRequests = aiStore.modelRequests
        /\ aiStore'.requestsToday = aiStore.requestsToday
        /\ ~aiStore'.isGenerating

\* C29: generation flag.  For every interleaving of generateContent calls,
\* overlapping ones included, isGenerating is true in every state in which a
\* call is in flight and false once every call has completed or thrown; a
\* call that throws for want of an active model resets the flag and adds
\* nothing to generationHistory or to the usage counters.
C29_GenerationFlag == []FlagFollowsCalls /\ [][ThrowAddsNothing]_vars

\* the positions of activeExperiments that hold the experiment
ActiveEntries(experimentId) ==
    {j \in DOMAIN aiStore.activeExperiments :
        aiStore.activeExperiments[j].id = experimentId}

\* C30: active experiments track the running status.  After any sequence of
\* createExperiment, startExperiment, pauseExperiment and stopExperiment,
\* activeExperiments holds exactly the experiments whose status in
\* experiments is 'running', each at most once and with that same status.
C30_ActiveAreRunning ==
    /\ \A i \in DOMAIN aiStore.experiments :
          LET exp == aiStore.experiments[i]
          IN  /\ exp.status = "running" <=> ActiveEntries(exp.id) # {}
              /\ Cardinality(ActiveEntries(exp.id)) <= 1
    /\ \A j \in DOMAIN aiStore.activeExperiments :
          /\ aiStore.activeExperiments[j].status = "running"
          /\ \E i \in DOMAIN aiStore.experiments :
                aiStore.experiments[i].id = aiStore.activeExperiments[j].id

====
